---- MODULE Spec2Model ----
(***************************************************************************)
(* Model of custom_components/solax_modbus/plugin_sofar.py:                *)
(*   - the capability bitmasks and matchInverterWithMask (lines 22-63);    *)
(*   - _read_serialnr and determineInverterType (lines 69-120).            *)
(*                                                                         *)
(* Representation.  A Python int bitmask is a natural number; & and | are  *)
(* BitAnd and BitOr.  A Python str is the sequence of its code points      *)
(* ('SP1' is <<83, 80, 49>>), a list of str the sequence of its strings.   *)
(* None is <<-1>> where a str is expected, which is no string because -1   *)
(* is no code point, and << <<-1>> >> where a list of str is expected;     *)
(* `not x` is Falsy(x) for a str and FalsyList(x) for a list.              *)
(***************************************************************************)
EXTENDS Integers, Sequences, FiniteSets, TLC

\* ------------------------------------------------------------ Python values

None == << -1 >>

\* `not x` for x a str or None
Falsy(x) == x = None \/ x = << >>

\* None where a list of str is expected
NoneList == << None >>

\* `not x` for x a list of str or None
FalsyList(x) == x = NoneList \/ x = << >>

RECURSIVE DigitAnd(_, _)
\* a & b, bit by bit
DigitAnd(a, b) ==
    IF a = 0 \/ b = 0 THEN 0
    ELSE (a % 2) * (b % 2) + 2 * DigitAnd(a \div 2, b \div 2)

\* a & b for a, b < 64, tabulated
AndTable == [x \in 0..63 |-> [y \in 0..63 |-> DigitAnd(x, y)]]

RECURSIVE BitAnd(_, _)
\* a & b of two non-negative ints, six bits at a time
BitAnd(a, b) ==
    IF a = 0 \/ b = 0 THEN 0
    ELSE AndTable[a % 64][b % 64] + 64 * BitAnd(a \div 64, b \div 64)

RECURSIVE DigitOr(_, _)
\* a | b, bit by bit
DigitOr(a, b) ==
    IF a = 0 THEN b
    ELSE IF b = 0 THEN a
    ELSE (IF a % 2 = 1 \/ b % 2 = 1 THEN 1 ELSE 0) + 2 * DigitOr(a \div 2, b \div 2)

\* a | b for a, b < 64, tabulated
OrTable == [x \in 0..63 |-> [y \in 0..63 |-> DigitOr(x, y)]]

RECURSIVE BitOr(_, _)
\* a | b of two non-negative ints, six bits at a time
BitOr(a, b) ==
    IF a = 0 THEN b
    ELSE IF b = 0 THEN a
    ELSE OrTable[a % 64][b % 64] + 64 * BitOr(a \div 64, b \div 64)

\* s.startswith(prefix), case-sensitive: code points are compared as they are
StartsWith(s, prefix) ==
    /\ Len(prefix) <= Len(s)
    /\ \A i \in 1..Len(prefix) : s[i] = prefix[i]

\* ------------------------------------------------------ capability bitmasks

GEN    == 1          \* 0x0001
GEN2   == 2          \* 0x0002
GEN3   == 4          \* 0x0004
GEN4   == 8          \* 0x0008
ALL_GEN_GROUP == BitOr(BitOr(BitOr(GEN2, GEN3), GEN4), GEN)

X1     == 256        \* 0x0100
X3     == 512        \* 0x0200
\* a phase group that takes in the PV bit as well
ALL_X_GROUP_WithPV == BitOr(BitOr(X1, X3), 1024)
ALL_X_GROUP == BitOr(X1, X3)

PV     == 1024       \* 0x0400
AC     == 2048       \* 0x0800
HYBRID == 4096       \* 0x1000
MIC    == 8192       \* 0x2000
ALL_TYPE_GROUP == BitOr(BitOr(BitOr(PV, AC), HYBRID), MIC)

EPS    == 32768      \* 0x8000
ALL_EPS_GROUP == EPS

DCB    == 65536      \* 0x10000
ALL_DCB_GROUP == DCB

PM     == 131072     \* 0x20000
ALL_PM_GROUP == PM

ALLDEFAULT == 0

\* ---------------------------------------------------- matchInverterWithMask

\* 'not relevant', the default of the serialnumber parameter
DefaultSerial == << 110, 111, 116, 32, 114, 101, 108, 101, 118, 97, 110, 116 >>

RECURSIVE BlacklistLoop(_, _, _, _)
\* for start in blacklist: if serialnumber.startswith(start): blacklisted = True
BlacklistLoop(serialnumber, blacklist, i, blacklisted) ==
    IF i > Len(blacklist) THEN blacklisted
    ELSE BlacklistLoop(serialnumber, blacklist, i + 1,
                       IF StartsWith(serialnumber, blacklist[i]) THEN TRUE
                       ELSE blacklisted)

\* a loop whose assignment overwrites: blacklisted = serialnumber.startswith(start)
Blacklisted_LastOnly(serialnumber, blacklist) ==
    IF FalsyList(blacklist) THEN FALSE
    ELSE StartsWith(serialnumber, blacklist[Len(blacklist)])

\* blacklisted = False; if blacklist: for start in blacklist: ...
Blacklisted(serialnumber, blacklist) ==
    IF FalsyList(blacklist) THEN FALSE
    ELSE BlacklistLoop(serialnumber, blacklist, 1, FALSE)

\* a group line without its `or (entitymask & GROUP == 0)`
GroupMatch_NoWildcard(inverterspec, entitymask, group) ==
    BitAnd(BitAnd(inverterspec, entitymask), group) # 0

\* a group line whose second test reads inverterspec for entitymask
GroupMatch_WildcardOnDevice(inverterspec, entitymask, group) ==
    \/ BitAnd(BitAnd(inverterspec, entitymask), group) # 0
    \/ BitAnd(inverterspec, group) = 0

\* a group line that wants the device's bits of the group to be the mask's
GroupMatch_EqualBits(inverterspec, entitymask, group) ==
    \/ BitAnd(inverterspec, group) = BitAnd(entitymask, group)
    \/ BitAnd(entitymask, group) = 0

\* a group line that wants every bit the mask has in the group
GroupMatch_AllOfMask(inverterspec, entitymask, group) ==
    \/ BitAnd(BitAnd(inverterspec, entitymask), group) = BitAnd(entitymask, group)
    \/ BitAnd(entitymask, group) = 0

\* a group line that tests the bits shared by device and mask in any group
GroupMatch_AnyBit(inverterspec, entitymask, group) ==
    \/ BitAnd(inverterspec, entitymask) # 0
    \/ BitAnd(entitymask, group) = 0

\* one line of the form
\*   ((inverterspec & entitymask & GROUP) != 0) or (entitymask & GROUP == 0)
GroupMatch(inverterspec, entitymask, group) ==
    \/ BitAnd(BitAnd(inverterspec, entitymask), group) # 0
    \/ BitAnd(entitymask, group) = 0

\* a return statement that leaves pmmatch out
matchInverterWithMask_NoPm(inverterspec, entitymask, serialnumber, blacklist) ==
    /\ GroupMatch(inverterspec, entitymask, ALL_GEN_GROUP)
    /\ GroupMatch(inverterspec, entitymask, ALL_X_GROUP)
    /\ GroupMatch(inverterspec, entitymask, ALL_TYPE_GROUP)
    /\ GroupMatch(inverterspec, entitymask, ALL_EPS_GROUP)
    /\ GroupMatch(inverterspec, entitymask, ALL_DCB_GROUP)
    /\ ~Blacklisted(serialnumber, blacklist)

matchInverterWithMask(inverterspec, entitymask, serialnumber, blacklist) ==
    LET genmatch == GroupMatch(inverterspec, entitymask, ALL_GEN_GROUP)
        xmatch   == GroupMatch(inverterspec, entitymask, ALL_X_GROUP)
        hybmatch == GroupMatch(inverterspec, entitymask, ALL_TYPE_GROUP)
        epsmatch == GroupMatch(inverterspec, entitymask, ALL_EPS_GROUP)
        dcbmatch == GroupMatch(inverterspec, entitymask, ALL_DCB_GROUP)
        pmmatch  == GroupMatch(inverterspec, entitymask, ALL_PM_GROUP)
        blacklisted == Blacklisted(serialnumber, blacklist)
    IN  (genmatch /\ xmatch /\ hybmatch /\ epsmatch /\ dcbmatch /\ pmmatch)
        /\ ~blacklisted

\* ------------------------------------------------------------ _read_serialnr

\* what hub.read_holding_registers(unit, address, count=7) can do: raise, return
\* an error response (isError() is true), or return a response with registers
RaiseResponse == [kind |-> "raise", registers |-> << >>]
ErrorResponse == [kind |-> "error", registers |-> << >>]
OkResponse(registers) == [kind |-> "ok", registers |-> registers]

\* BinaryPayloadDecoder.fromRegisters(registers, byteorder=Endian.Big): every
\* 16-bit register gives two bytes, the high byte first
Payload(registers) ==
    [i \in 1..(2 * Len(registers)) |->
        IF i % 2 = 1 THEN registers[(i + 1) \div 2] \div 256
        ELSE registers[i \div 2] % 256]

\* decoder.decode_string(size): the next size bytes of the payload, fewer when
\* the payload is shorter
decode_string(payload, size) ==
    SubSeq(payload, 1, IF Len(payload) < size THEN Len(payload) ELSE size)

\* bytes.decode("ascii") raises UnicodeDecodeError on a byte above 0x7f
AsciiDecodable(bytes) == \A i \in 1..Len(bytes) : bytes[i] < 128

\* an exchange of the first two bytes only
SwapBytes_FirstPair(ba) ==
    [i \in 1..Len(ba) |-> IF i = 1 THEN ba[2] ELSE IF i = 2 THEN ba[1] ELSE ba[i]]

\* ba[0::2] = ba[1::2] alone: the second byte of every pair copied over the first
SwapBytes_CopyOnly(ba) ==
    [i \in 1..Len(ba) |-> IF i % 2 = 1 THEN ba[i + 1] ELSE ba[i]]

\* ba[0::2], ba[1::2] = ba[1::2], ba[0::2] on an even-length bytearray
SwapBytes(ba) ==
    [i \in 1..Len(ba) |-> IF i % 2 = 1 THEN ba[i + 1] ELSE ba[i - 1]]

\* _read_serialnr whose try has no except: an exception of the transport, or of
\* the decoding, leaves the function
read_serialnr_NoExcept(response, swapbytes) ==
    IF response.kind = "raise" THEN
        [res |-> None, stored |-> FALSE, raised |-> TRUE]
    ELSE IF response.kind = "error" THEN
        [res |-> None, stored |-> FALSE, raised |-> FALSE]
    ELSE
        LET bytes == decode_string(Payload(response.registers), 14) IN
        IF ~AsciiDecodable(bytes) THEN
            [res |-> None, stored |-> FALSE, raised |-> TRUE]
        ELSE
            [res |-> IF swapbytes THEN SwapBytes(bytes) ELSE bytes,
             stored |-> TRUE, raised |-> FALSE]

\* _read_serialnr(hub, address, swapbytes) on the transport's response:
\*   res    - the value returned;
\*   stored - whether line 80, hub.seriesnumber = res, was executed;
\*   raised - whether an exception leaves the function (never: every statement
\*            that can raise is inside try / except Exception).
read_serialnr(response, swapbytes) ==
    IF response.kind = "raise" THEN
        [res |-> None, stored |-> FALSE, raised |-> FALSE]
    ELSE IF response.kind = "error" THEN
        [res |-> None, stored |-> FALSE, raised |-> FALSE]
    ELSE
        LET bytes == decode_string(Payload(response.registers), 14) IN
        IF ~AsciiDecodable(bytes) THEN
            [res |-> None, stored |-> FALSE, raised |-> FALSE]
        ELSE IF ~swapbytes THEN
            [res |-> bytes, stored |-> TRUE, raised |-> FALSE]
        ELSE IF Len(bytes) % 2 = 0 THEN
            [res |-> SwapBytes(bytes), stored |-> TRUE, raised |-> FALSE]
        ELSE
            \* the slice assignment raises ValueError after res was assigned
            [res |-> bytes, stored |-> FALSE, raised |-> FALSE]

\* ----------------------------------------------------- determineInverterType

PrimaryAddress  == 1093      \* 0x445
FallbackAddress == 8193      \* 0x2001

Str_unknown     == << 117, 110, 107, 110, 111, 119, 110 >>           \* 'unknown'
Pfx_SP1ES120N6  == << 83, 80, 49, 69, 83, 49, 50, 48, 78, 54 >>      \* 'SP1ES120N6'
Pfx_SP1         == << 83, 80, 49 >>                                  \* 'SP1'
Pfx_SP2         == << 83, 80, 50 >>                                  \* 'SP2'
Pfx_SM1E        == << 83, 77, 49, 69 >>                              \* 'SM1E'
Pfx_ZM1E        == << 90, 77, 49, 69 >>                              \* 'ZM1E'
Pfx_SS2E        == << 83, 83, 50, 69 >>                              \* 'SS2E'
Pfx_SA1         == << 83, 65, 49 >>                                  \* 'SA1'
Pfx_SB1         == << 83, 66, 49 >>                                  \* 'SB1'
Pfx_SC1         == << 83, 67, 49 >>                                  \* 'SC1'
Pfx_SD1         == << 83, 68, 49 >>                                  \* 'SD1'
Pfx_SF4         == << 83, 70, 52 >>                                  \* 'SF4'
Pfx_SH1         == << 83, 72, 49 >>                                  \* 'SH1'
Pfx_SL1         == << 83, 76, 49 >>                                  \* 'SL1'
Pfx_SJ2         == << 83, 74, 50 >>                                  \* 'SJ2'

\* the chain with the test for 'SP1' placed before the one for 'SP1ES120N6'
BaseInverterType_SP1First(seriesnumber) ==
    IF      StartsWith(seriesnumber, Pfx_SP1)  THEN BitOr(BitOr(HYBRID, X3), GEN)
    ELSE IF StartsWith(seriesnumber, Pfx_SP1ES120N6) THEN BitOr(HYBRID, X3)
    ELSE IF StartsWith(seriesnumber, Pfx_SP2)  THEN BitOr(BitOr(HYBRID, X3), GEN)
    ELSE IF StartsWith(seriesnumber, Pfx_SM1E) THEN BitOr(BitOr(HYBRID, X3), GEN)
    ELSE IF StartsWith(seriesnumber, Pfx_ZM1E) THEN BitOr(BitOr(HYBRID, X3), GEN)
    ELSE IF StartsWith(seriesnumber, Pfx_SS2E) THEN BitOr(BitOr(PV, X3), GEN)
    ELSE IF StartsWith(seriesnumber, Pfx_SA1)  THEN BitOr(PV, X1)
    ELSE IF StartsWith(seriesnumber, Pfx_SB1)  THEN BitOr(PV, X1)
    ELSE IF StartsWith(seriesnumber, Pfx_SC1)  THEN BitOr(PV, X3)
    ELSE IF StartsWith(seriesnumber, Pfx_SD1)  THEN BitOr(PV, X3)
    ELSE IF StartsWith(seriesnumber, Pfx_SF4)  THEN BitOr(PV, X3)
    ELSE IF StartsWith(seriesnumber, Pfx_SH1)  THEN BitOr(PV, X3)
    ELSE IF StartsWith(seriesnumber, Pfx_SL1)  THEN BitOr(PV, X3)
    ELSE IF StartsWith(seriesnumber, Pfx_SJ2)  THEN BitOr(PV, X3)
    ELSE 0

\* lines 96-113: the if / elif chain over seriesnumber.startswith(...)
BaseInverterType(seriesnumber) ==
    IF      StartsWith(seriesnumber, Pfx_SP1ES120N6) THEN BitOr(HYBRID, X3)
    ELSE IF StartsWith(seriesnumber, Pfx_SP1)  THEN BitOr(BitOr(HYBRID, X3), GEN)
    ELSE IF StartsWith(seriesnumber, Pfx_SP2)  THEN BitOr(BitOr(HYBRID, X3), GEN)
    ELSE IF StartsWith(seriesnumber, Pfx_SM1E) THEN BitOr(BitOr(HYBRID, X3), GEN)
    ELSE IF StartsWith(seriesnumber, Pfx_ZM1E) THEN BitOr(BitOr(HYBRID, X3), GEN)
    ELSE IF StartsWith(seriesnumber, Pfx_SS2E) THEN BitOr(BitOr(PV, X3), GEN)
    ELSE IF StartsWith(seriesnumber, Pfx_SA1)  THEN BitOr(PV, X1)
    ELSE IF StartsWith(seriesnumber, Pfx_SB1)  THEN BitOr(PV, X1)
    ELSE IF StartsWith(seriesnumber, Pfx_SC1)  THEN BitOr(PV, X3)
    ELSE IF StartsWith(seriesnumber, Pfx_SD1)  THEN BitOr(PV, X3)
    ELSE IF StartsWith(seriesnumber, Pfx_SF4)  THEN BitOr(PV, X3)
    ELSE IF StartsWith(seriesnumber, Pfx_SH1)  THEN BitOr(PV, X3)
    ELSE IF StartsWith(seriesnumber, Pfx_SL1)  THEN BitOr(PV, X3)
    ELSE IF StartsWith(seriesnumber, Pfx_SJ2)  THEN BitOr(PV, X3)
    ELSE 0

\* overrides applied only to a recognised inverter: `if invertertype and read_eps`
ApplyOverrides_SkipWhenZero(invertertype, cfg) ==
    IF invertertype = 0 THEN 0
    ELSE LET t1 == IF cfg.read_eps THEN BitOr(invertertype, EPS) ELSE invertertype
             t2 == IF cfg.read_dcb THEN BitOr(t1, DCB) ELSE t1
             t3 == IF cfg.read_pm  THEN BitOr(t2, PM)  ELSE t2
         IN  t3

\* a copied line left half edited: `if read_pm: invertertype = invertertype | DCB`
ApplyOverrides_PmSetsDcb(invertertype, cfg) ==
    LET t1 == IF cfg.read_eps THEN BitOr(invertertype, EPS) ELSE invertertype
        t2 == IF cfg.read_dcb THEN BitOr(t1, DCB) ELSE t1
        t3 == IF cfg.read_pm  THEN BitOr(t2, DCB) ELSE t2
    IN  t3

\* lines 114-119: read_eps, read_dcb, read_pm are what configdict.get returns
\* (the configured value, or the default when the key is absent)
ApplyOverrides(invertertype, cfg) ==
    LET t1 == IF cfg.read_eps THEN BitOr(invertertype, EPS) ELSE invertertype
        t2 == IF cfg.read_dcb THEN BitOr(t1, DCB) ELSE t1
        t3 == IF cfg.read_pm  THEN BitOr(t2, PM)  ELSE t2
    IN  t3

\* ------------------------------------------------------------------- inputs

\* the number of determineInverterType calls (connects and reconnects) on the hub
MaxResolutions == 2

\* the number of flag bits of BitOrder a tried bitmask is built from
NBits == 7

\* 14-character identities: one for every prefix of the chain, and some that
\* start with none of them
Identities == {
    << 83, 80, 49, 69, 83, 49, 50, 48, 78, 54, 65, 48, 48, 49 >>,      \* 'SP1ES120N6A001'
    << 83, 80, 49, 69, 83, 49, 49, 48, 78, 54, 65, 48, 48, 49 >>,      \* 'SP1ES110N6A001'
    << 83, 80, 50, 69, 83, 49, 49, 48, 78, 54, 65, 48, 48, 49 >>,      \* 'SP2ES110N6A001'
    << 83, 77, 49, 69, 83, 49, 49, 48, 78, 54, 65, 48, 48, 49 >>,      \* 'SM1ES110N6A001'
    << 90, 77, 49, 69, 83, 49, 49, 48, 78, 54, 65, 48, 48, 49 >>,      \* 'ZM1ES110N6A001'
    << 83, 83, 50, 69, 83, 49, 49, 48, 78, 54, 65, 48, 48, 49 >>,      \* 'SS2ES110N6A001'
    << 83, 65, 49, 69, 83, 49, 49, 48, 78, 54, 65, 48, 48, 49 >>,      \* 'SA1ES110N6A001'
    << 83, 66, 49, 48, 48, 48, 48, 48, 48, 48, 48, 48, 48, 48 >>,      \* 'SB100000000000'
    << 83, 67, 49, 48, 48, 48, 48, 48, 48, 48, 48, 48, 48, 48 >>,      \* 'SC100000000000'
    << 83, 68, 49, 48, 48, 48, 48, 48, 48, 48, 48, 48, 48, 48 >>,      \* 'SD100000000000'
    << 83, 70, 52, 48, 48, 48, 48, 48, 48, 48, 48, 48, 48, 48 >>,      \* 'SF400000000000'
    << 83, 72, 49, 48, 48, 48, 48, 48, 48, 48, 48, 48, 48, 48 >>,      \* 'SH100000000000'
    << 83, 76, 49, 48, 48, 48, 48, 48, 48, 48, 48, 48, 48, 48 >>,      \* 'SL100000000000'
    << 83, 74, 50, 48, 48, 48, 48, 48, 48, 48, 48, 48, 48, 48 >>,      \* 'SJ200000000000'
    << 115, 112, 49, 101, 115, 49, 50, 48, 110, 54, 97, 48, 48, 49 >>, \* 'sp1es120n6a001'
    << 83, 77, 49, 88, 83, 49, 49, 48, 78, 54, 65, 48, 48, 49 >>,      \* 'SM1XS110N6A001'
    << 88, 89, 57, 69, 83, 49, 49, 48, 78, 54, 65, 48, 48, 49 >> }     \* 'XY9ES110N6A001'

\* the registers of a device that holds identity s: two characters a register,
\* the first in the high byte
RegistersFor(s) ==
    [k \in 1..(Len(s) \div 2) |-> s[2 * k - 1] * 256 + s[2 * k]]

\* what the transport may answer to one identity read
Responses ==
    { RaiseResponse, ErrorResponse }
    \cup { OkResponse(RegistersFor(s)) : s \in Identities }
    \cup { OkResponse(<< >>),                                   \* no register
           OkResponse(<< 21313, 12544 >>),                      \* 'SA1\x00', 2 registers
           OkResponse([k \in 1..7 |-> 0]),                      \* fourteen NUL
           OkResponse([k \in 1..7 |-> 65535]) }                 \* bytes 0xff: no ASCII

\* the values configdict.get gives for CONF_READ_EPS, CONF_READ_DCB, CONF_READ_PM
Configs == [read_eps : BOOLEAN, read_dcb : BOOLEAN, read_pm : BOOLEAN]

\* ------------------------------------------------------------------- state

VARIABLES
    hub,            \* the hub's attributes seriesnumber and invertertype
    pc,             \* where determineInverterType stands: idle, line89, line90,
                    \* line91, done (returned), raised (left by an exception)
    seriesnumber,   \* determineInverterType's local seriesnumber
    configdict,     \* determineInverterType's parameter configdict
    reads,          \* the identity reads of the present call, in order: the
                    \* address, what the transport did, what was returned
    resolutions,    \* the number of determineInverterType calls so far
    call,           \* the arguments of a matchInverterWithMask call
    matchPc,        \* none, called, returned
    matchResult,    \* what the matchInverterWithMask call returned
    readCall,       \* a direct _read_serialnr call: the transport's response
                    \* and the swapbytes argument
    readPc,         \* none, called, returned
    readResult,     \* what the _read_serialnr call returned
    catalog,        \* the descriptor list handed to resolveActiveSet
    inverter,       \* the device: its capability mask and serial number
    maxWords,       \* the configured maximum block word count
    planPc,         \* none, called, resolved, planned
    activeSet,      \* the Active Point Set
    blocks,         \* the block specs planned from the Active Point Set
    codecCall,      \* an encodeWrite call: the descriptor and the value
    codecPc,        \* none, called, encoded, written, decoded, failed
    words,          \* the raw words encode produced
    writes,         \* the writeWords operations issued, in order
    decoded,        \* what decode made of the words
    datadict,       \* the value mapping of the read cycle
    cyclePc,        \* 0 (no cycle), or the position of the next derived point
                    \* to evaluate (past the last one: the cycle is done)
    failures,       \* the derived points that failed in this cycle, in order
    requests        \* the block reads of this cycle, in order: the block
                    \* asked for and what the transport gave back

resolverVars == << hub, pc, seriesnumber, configdict, reads, resolutions >>
matchVars == << call, matchPc, matchResult >>
readVars == << readCall, readPc, readResult >>
planVars == << catalog, inverter, maxWords, planPc, activeSet, blocks >>
codecVars == << codecCall, codecPc, words, writes, decoded >>
cycleVars == << datadict, cyclePc, failures, requests >>
laterVars == << readVars, planVars, codecVars, cycleVars >>
vars == << hub, pc, seriesnumber, configdict, reads, resolutions,
           call, matchPc, matchResult, readCall, readPc, readResult,
           catalog, inverter, maxWords, planPc, activeSet, blocks,
           codecCall, codecPc, words, writes, decoded,
           datadict, cyclePc, failures, requests >>

\* a hub on which determineInverterType has not run: invertertype is not yet
\* assigned (-1 is no bitmask)
Unassigned == -1

NoCall == [inverterspec |-> 0, entitymask |-> 0,
           serialnumber |-> DefaultSerial, blacklist |-> NoneList]

ResolverInit ==
    /\ hub = [seriesnumber |-> None, invertertype |-> Unassigned]
    /\ pc = "idle"
    /\ seriesnumber = None
    /\ configdict = [read_eps |-> FALSE, read_dcb |-> FALSE, read_pm |-> FALSE]
    /\ reads = << >>
    /\ resolutions = 0

\* no matchInverterWithMask call is under way
MatchIdle ==
    /\ call = NoCall
    /\ matchPc = "none"
    /\ matchResult = FALSE

\* no direct _read_serialnr call is under way
ReadIdle ==
    /\ readCall = [response |-> ErrorResponse, swapbytes |-> FALSE]
    /\ readPc = "none"
    /\ readResult = None

\* no plan is being built
PlanIdle ==
    /\ catalog = << >>
    /\ inverter = [invertertype |-> 0, seriesnumber |-> DefaultSerial]
    /\ maxWords = 0
    /\ planPc = "none"
    /\ activeSet = << >>
    /\ blocks = << >>

\* no write is under way
CodecIdle ==
    /\ codecCall = [descr |-> << >>, value |-> 0]
    /\ codecPc = "none"
    /\ words = << >>
    /\ writes = << >>
    /\ decoded = 0

\* no read cycle is under way
CycleIdle ==
    /\ datadict = << >>
    /\ cyclePc = 0
    /\ failures = << >>
    /\ requests = << >>

Init ==
    /\ ResolverInit
    /\ MatchIdle
    /\ ReadIdle
    /\ PlanIdle
    /\ CodecIdle
    /\ CycleIdle

\* ------------------------------------------- determineInverterType, by steps

\* determineInverterType(hub, configdict) is called
Call ==
    /\ pc \in {"idle", "done"}
    /\ resolutions < MaxResolutions
    /\ \E cfg \in Configs : configdict' = cfg
    /\ pc' = "line89"
    /\ seriesnumber' = None
    /\ reads' = << >>
    /\ resolutions' = resolutions + 1
    /\ UNCHANGED << hub, matchVars, laterVars >>

\* one _read_serialnr(hub, address, swapbytes = False) call of
\* determineInverterType, the transport answering with response
ReadAt(address, response, next) ==
    LET r == read_serialnr(response, FALSE) IN
    /\ seriesnumber' = r.res
    /\ hub' = IF r.stored THEN [hub EXCEPT !.seriesnumber = r.res] ELSE hub
    /\ reads' = Append(reads, [address |-> address, kind |-> response.kind,
                                res |-> r.res])
    /\ pc' = IF r.raised THEN "raised" ELSE next

\* line 89
ReadPrimary ==
    /\ pc = "line89"
    /\ \E response \in Responses : ReadAt(PrimaryAddress, response, "line90")
    /\ UNCHANGED << configdict, resolutions, matchVars, laterVars >>

\* line 90 without its `if not seriesnumber`
ReadFallback_Always ==
    /\ pc = "line90"
    /\ \E response \in Responses : ReadAt(FallbackAddress, response, "line91")
    /\ UNCHANGED << configdict, resolutions, matchVars, laterVars >>

\* line 90, `not seriesnumber` true
ReadFallback ==
    /\ pc = "line90"
    /\ Falsy(seriesnumber)
    /\ \E response \in Responses : ReadAt(FallbackAddress, response, "line91")
    /\ UNCHANGED << configdict, resolutions, matchVars, laterVars >>

\* line 90, `not seriesnumber` false
SkipFallback ==
    /\ pc = "line90"
    /\ ~Falsy(seriesnumber)
    /\ pc' = "line91"
    /\ UNCHANGED << hub, seriesnumber, configdict, reads, resolutions, matchVars, laterVars >>

\* a failed resolution that leaves early with no capability: after line 93,
\* `hub.invertertype = 0` and `return`
Resolve_FailedZero ==
    /\ pc = "line91"
    /\ LET sn == IF Falsy(seriesnumber) THEN Str_unknown ELSE seriesnumber
           invertertype == IF Falsy(seriesnumber) THEN 0
                           ELSE ApplyOverrides(BaseInverterType(sn), configdict)
       IN  /\ seriesnumber' = sn
           /\ hub' = [hub EXCEPT !.invertertype = invertertype]
    /\ pc' = "done"
    /\ UNCHANGED << configdict, reads, resolutions, matchVars, laterVars >>

\* a resolution that adds its capabilities to those the hub already has
Resolve_Accumulate ==
    /\ pc = "line91"
    /\ LET sn == IF Falsy(seriesnumber) THEN Str_unknown ELSE seriesnumber
           invertertype == ApplyOverrides(BaseInverterType(sn), configdict)
       IN  /\ seriesnumber' = sn
           /\ hub' = [hub EXCEPT !.invertertype =
                         IF hub.invertertype = Unassigned THEN invertertype
                         ELSE BitOr(hub.invertertype, invertertype)]
    /\ pc' = "done"
    /\ UNCHANGED << configdict, reads, resolutions, matchVars, laterVars >>

\* lines 91-120
Resolve ==
    /\ pc = "line91"
    /\ LET sn == IF Falsy(seriesnumber) THEN Str_unknown ELSE seriesnumber
           invertertype == ApplyOverrides(BaseInverterType(sn), configdict)
       IN  /\ seriesnumber' = sn
           /\ hub' = [hub EXCEPT !.invertertype = invertertype]
    /\ pc' = "done"
    /\ UNCHANGED << configdict, reads, resolutions, matchVars, laterVars >>

Next ==
    \/ Call
    \/ ReadPrimary
    \/ ReadFallback
    \/ SkipFallback
    \/ Resolve

Spec == Init /\ [][Next]_vars

\* the steps of a call that is under way
Steps == ReadPrimary \/ ReadFallback \/ SkipFallback \/ Resolve

\* ------------------------------------------ matchInverterWithMask, as called

\* flag bits in the order they enter the tried bitmasks: one bit of every
\* group, then a second bit of a group, then a bit of no group (0x4000)
BitOrder == << GEN, X1, PV, EPS, DCB, PM, GEN2, 16384, X3, HYBRID >>

RECURSIVE SumOf(_)
SumOf(S) == IF S = {} THEN 0 ELSE LET x == CHOOSE y \in S : TRUE IN x + SumOf(S \ {x})

\* every bitmask made of the first n bits of BitOrder
BitValues(n) ==
    { SumOf(S) : S \in SUBSET { BitOrder[i] : i \in 1..(IF n < Len(BitOrder) THEN n ELSE Len(BitOrder)) } }

\* every hub.invertertype determineInverterType can assign
ResolvableTypes ==
    { ApplyOverrides(BaseInverterType(s), cfg) :
        s \in Identities \cup {Str_unknown}, cfg \in Configs }

\* the allowedtypes values of SENSOR_TYPES, NUMBER_TYPES and SELECT_TYPES, and
\* the default ALLDEFAULT
CatalogMasks ==
    { BitOr(HYBRID, GEN),
      BitOr(BitOr(HYBRID, PV), GEN),
      BitOr(BitOr(BitOr(HYBRID, PV), X3), PM),
      BitOr(HYBRID, PV),
      BitOr(BitOr(HYBRID, X3), EPS),
      HYBRID,
      ALLDEFAULT }

\* every named flag and every group mask alone, and three bits of no group
\* (0x0010, 0x4000, 0x40000)
SingleValues ==
    { GEN, GEN2, GEN3, GEN4, X1, X3, PV, AC, HYBRID, MIC, EPS, DCB, PM }
    \cup { ALL_GEN_GROUP, ALL_X_GROUP, ALL_TYPE_GROUP }
    \cup { 16, 16384, 262144 }

DeviceValues == BitValues(NBits) \cup ResolvableTypes \cup SingleValues
MaskValues == BitValues(NBits) \cup CatalogMasks \cup SingleValues

\* serial numbers and blacklists of the calls that pass both
MatchSerials ==
    { << 83, 80, 49, 69, 83, 49, 50, 48, 78, 54, 65, 48, 48, 49 >>,      \* 'SP1ES120N6A001'
      << 83, 65, 49, 69, 83, 49, 49, 48, 78, 54, 65, 48, 48, 49 >>,      \* 'SA1ES110N6A001'
      << 115, 112, 49, 101, 115, 49, 50, 48, 110, 54, 97, 48, 48, 49 >>, \* 'sp1es120n6a001'
      << 83, 80 >>,                                                      \* 'SP'
      Str_unknown,
      DefaultSerial }

MatchBlacklists ==
    { NoneList,
      << >>,
      << Pfx_SP1 >>,
      << << 115, 112, 49 >> >>,                                          \* ['sp1']
      << Pfx_SA1, Pfx_SP1ES120N6 >>,
      << Pfx_SJ2, Pfx_SP1, Pfx_SB1 >>,
      << << >> >>,                                                       \* ['']
      << << 83, 80, 49, 69, 83, 49, 50, 48, 78, 54, 65, 48, 48, 49, 88 >> >> }  \* ['SP1ES120N6A001X']

\* the calls tried: with the two defaults (serialnumber = 'not relevant',
\* blacklist = None) over every tried bitmask, and with a serial number and a
\* blacklist over the bitmasks the program itself produces
MatchCalls ==
    [inverterspec : DeviceValues, entitymask : MaskValues,
     serialnumber : {DefaultSerial}, blacklist : {NoneList}]
    \cup
    [inverterspec : ResolvableTypes, entitymask : CatalogMasks,
     serialnumber : MatchSerials, blacklist : MatchBlacklists]

InitMatch ==
    /\ ResolverInit
    /\ ReadIdle
    /\ PlanIdle
    /\ CodecIdle
    /\ CycleIdle
    /\ call \in MatchCalls
    /\ matchPc = "called"
    /\ matchResult = FALSE

\* the call returns
Match ==
    /\ matchPc = "called"
    /\ matchResult' = matchInverterWithMask(call.inverterspec, call.entitymask,
                                            call.serialnumber, call.blacklist)
    /\ matchPc' = "returned"
    /\ UNCHANGED << call, resolverVars, laterVars >>

NextMatch == Match

SpecMatch == InitMatch /\ [][NextMatch]_vars

\* =================================================================== claims

\* the flags of the six groups, as sets
GroupFlags == << {GEN, GEN2, GEN3, GEN4}, {X1, X3}, {PV, AC, HYBRID, MIC},
                 {EPS}, {DCB}, {PM} >>

\* flag f (a power of two) is set in n
HasFlag(n, f) == (n \div f) % 2 = 1

\* group k is satisfied: the mask has no flag of it, or shares one with the device
GroupSatisfied(k, device, mask) ==
    \/ \A f \in GroupFlags[k] : ~HasFlag(mask, f)
    \/ \E f \in GroupFlags[k] : HasFlag(device, f) /\ HasFlag(mask, f)

AllGroupsSatisfied(device, mask) ==
    \A k \in 1..Len(GroupFlags) : GroupSatisfied(k, device, mask)

\* the call's serial number starts, character for character, with a prefix of
\* the call's blacklist
SerialHitsBlacklist ==
    /\ call.blacklist # NoneList
    /\ \E i \in 1..Len(call.blacklist) :
          /\ Len(call.blacklist[i]) <= Len(call.serialnumber)
          /\ SubSeq(call.serialnumber, 1, Len(call.blacklist[i])) = call.blacklist[i]

Returned == matchPc = "returned"

\* C1: with no blacklist, matchInverterWithMask returns true exactly when each
\* of the six groups is satisfied: the mask has no bit in the group, or device
\* and mask share a bit of it (OR within a group, AND across groups).
C1_GroupSemantics ==
    (Returned /\ call.blacklist = NoneList) =>
        (matchResult <=> AllGroupsSatisfied(call.inverterspec, call.entitymask))

\* a match that needs both rules: the mask has flags in two groups at least,
\* and in one of them a flag the device lacks beside one it has
C1_Witness ==
    /\ Returned /\ call.blacklist = NoneList /\ matchResult
    /\ HasFlag(call.entitymask, GEN) /\ HasFlag(call.entitymask, GEN2)
    /\ ~HasFlag(call.inverterspec, GEN) /\ HasFlag(call.inverterspec, GEN2)
    /\ HasFlag(call.entitymask, X1) /\ HasFlag(call.entitymask, PM)

GroupValues == [k \in 1..Len(GroupFlags) |-> { SumOf(F) : F \in SUBSET GroupFlags[k] }]

\* the bits of n that lie in group k
GroupPart(n, k) == SumOf({ f \in GroupFlags[k] : HasFlag(n, f) })

\* C3: when the mask has no bit in a group, the result does not depend on the
\* device's bits in that group: every device value that differs from the
\* call's only in that group gets the result the call got.
C3_WildcardGroupIgnored ==
    Returned =>
        \A k \in 1..Len(GroupFlags) :
            (\A f \in GroupFlags[k] : ~HasFlag(call.entitymask, f)) =>
                LET rest == call.inverterspec - GroupPart(call.inverterspec, k) IN
                \A v \in GroupValues[k] :
                    matchInverterWithMask(rest + v, call.entitymask,
                                          call.serialnumber, call.blacklist)
                    = matchResult

\* a matching call whose device has a flag in a group the mask leaves open
C3_Witness ==
    /\ Returned /\ matchResult
    /\ call.entitymask = BitOr(HYBRID, GEN)
    /\ HasFlag(call.inverterspec, X3) /\ HasFlag(call.inverterspec, EPS)

\* C4: matchInverterWithMask returns false whenever the serial number starts
\* (case-sensitively) with a prefix of the blacklist, whatever the bitmasks;
\* with no blacklist (None) or an empty one the result is the group match alone,
\* for every serial number.
C4_Blacklist ==
    Returned =>
        /\ SerialHitsBlacklist => ~matchResult
        /\ (call.blacklist = NoneList \/ call.blacklist = << >>) =>
              (matchResult <=> AllGroupsSatisfied(call.inverterspec, call.entitymask))

\* a call the groups accept and the blacklist rejects, on a prefix that is not
\* the last of the list
C4_Witness ==
    /\ Returned /\ ~matchResult
    /\ AllGroupsSatisfied(call.inverterspec, call.entitymask)
    /\ call.blacklist = << Pfx_SJ2, Pfx_SP1, Pfx_SB1 >>
    /\ SerialHitsBlacklist

\* ------------------------------------------------------- identity resolution

\* s starts, character for character, with p
HasPrefix(s, p) == Len(p) <= Len(s) /\ SubSeq(s, 1, Len(p)) = p

\* the generation, phase and type bits of a capability value (the bits below EPS)
BaseBits(t) == t % 32768

\* the override bits the toggles of cfg ask for
OverrideBits(cfg) ==
    (IF cfg.read_eps THEN 32768 ELSE 0) + (IF cfg.read_dcb THEN 65536 ELSE 0)
    + (IF cfg.read_pm THEN 131072 ELSE 0)

Done == pc = "done"

\* the present call read both addresses and got an identity from neither
BothReadsFailed ==
    Len(reads) = 2 /\ Falsy(reads[1].res) /\ Falsy(reads[2].res)

\* the identity of the present call is one that was read
IdentityRead == Len(reads) >= 1 /\ ~Falsy(reads[Len(reads)].res)

KnownPrefixes ==
    { Pfx_SP1ES120N6, Pfx_SP1, Pfx_SP2, Pfx_SM1E, Pfx_ZM1E, Pfx_SS2E, Pfx_SA1,
      Pfx_SB1, Pfx_SC1, Pfx_SD1, Pfx_SF4, Pfx_SH1, Pfx_SL1, Pfx_SJ2 }

\* C5: the prefixes are tested in the authored order and the first that matches
\* decides: an identity starting with 'SP1ES120N6' gets the base capabilities
\* HYBRID|X3 and no generation bit, though it starts with 'SP1' too, whose rule
\* gives HYBRID|X3|GEN to the other 'SP1' identities; one starting with 'SA1'
\* gets PV|X1 and no generation bit.
C5_FirstPrefixWins ==
    Done =>
        /\ HasPrefix(seriesnumber, Pfx_SP1ES120N6) =>
              BaseBits(hub.invertertype) = 4096 + 512
        /\ (HasPrefix(seriesnumber, Pfx_SP1) /\ ~HasPrefix(seriesnumber, Pfx_SP1ES120N6)) =>
              BaseBits(hub.invertertype) = 4096 + 512 + 1
        /\ HasPrefix(seriesnumber, Pfx_SA1) =>
              BaseBits(hub.invertertype) = 1024 + 256

C5_Witness ==
    /\ Done /\ IdentityRead
    /\ HasPrefix(seriesnumber, Pfx_SP1ES120N6)
    /\ ~HasFlag(hub.invertertype, GEN) /\ HasFlag(hub.invertertype, HYBRID)

\* C6: when an identity is read that starts with none of the known prefixes,
\* the base mask is zero and the overrides still apply: with read_eps true and
\* the other toggles false, hub.invertertype is exactly EPS.
C6_UnrecognizedKeepsOverrides ==
    (/\ Done /\ IdentityRead
     /\ \A p \in KnownPrefixes : ~HasPrefix(seriesnumber, p)) =>
        /\ BaseBits(hub.invertertype) = 0
        /\ hub.invertertype = OverrideBits(configdict)
        /\ configdict = [read_eps |-> TRUE, read_dcb |-> FALSE, read_pm |-> FALSE] =>
              hub.invertertype = 32768

C6_Witness ==
    /\ Done /\ IdentityRead
    /\ \A p \in KnownPrefixes : ~HasPrefix(seriesnumber, p)
    /\ configdict = [read_eps |-> TRUE, read_dcb |-> FALSE, read_pm |-> FALSE]
    /\ hub.invertertype = EPS

C8_ReadOrder ==
    /\ Len(reads) <= 2
    /\ Len(reads) >= 1 => reads[1].address = 1093
    /\ Len(reads) = 2 => (reads[2].address = 8193 /\ Falsy(reads[1].res))
    /\ pc \in {"idle", "line89"} => Len(reads) = 0
    /\ pc = "line90" => Len(reads) = 1
    /\ pc \in {"line91", "done"} =>
          /\ Len(reads) >= 1
          /\ (Len(reads) = 2) <=> (reads[1].kind # "ok" \/ reads[1].res \in {None, << >>})

C8_Witness ==
    /\ Done /\ Len(reads) = 2
    /\ reads[1].kind = "ok" /\ reads[1].res = << >>
    /\ reads[2].kind = "ok" /\ ~Falsy(reads[2].res)

\* the number of steps a call has left at most
Rank(p) == CASE p = "line89" -> 3 [] p = "line90" -> 2 [] p = "line91" -> 1
             [] OTHER -> 0

Querying == pc \in {"line89", "line90", "line91"}

\* C9: identity resolution is not fatal and always terminates: whatever the
\* transport does on each identity read, no exception leaves
\* determineInverterType; a call under way can always take its next step, every
\* step brings it nearer to its return (at most three steps), and when it has
\* returned hub.invertertype is assigned.
C9_Terminates ==
    /\ [](pc # "raised")
    /\ [](Querying => ENABLED Steps)
    /\ [][Querying => (Rank(pc') < Rank(pc) /\ pc' # "raised")]_vars
    /\ [](Done => hub.invertertype \in 0..262143)

C9_Witness ==
    /\ Done /\ Len(reads) = 2
    /\ reads[1].kind = "raise" /\ reads[2].kind = "raise"
    /\ hub.invertertype # Unassigned

\* the toggles applied one after the other in a given order
ToggleBit == [read_eps |-> EPS, read_dcb |-> DCB, read_pm |-> PM]

RECURSIVE ApplyInOrder(_, _, _)
ApplyInOrder(t, order, cfg) ==
    IF order = << >> THEN t
    ELSE ApplyInOrder(IF cfg[Head(order)] THEN BitOr(t, ToggleBit[Head(order)]) ELSE t,
                      Tail(order), cfg)

ToggleOrders ==
    { o \in [1..3 -> {"read_eps", "read_dcb", "read_pm"}] :
        \A i, j \in 1..3 : i # j => o[i] # o[j] }

\* C10: the resolved capability set is the base mask with the override bits:
\* read_eps, read_dcb and read_pm each set their one bit (EPS, DCB, PM) when
\* true and nothing when false, the toggles give the same result in every
\* order, and none changes a generation, phase or type bit of the base mask.
C10_Overrides ==
    Done =>
        /\ HasFlag(hub.invertertype, EPS) <=> configdict.read_eps
        /\ HasFlag(hub.invertertype, DCB) <=> configdict.read_dcb
        /\ HasFlag(hub.invertertype, PM)  <=> configdict.read_pm
        /\ hub.invertertype = BaseBits(hub.invertertype) + OverrideBits(configdict)
        /\ BaseBits(hub.invertertype) = BaseInverterType(seriesnumber)
        /\ \A o \in ToggleOrders :
              ApplyInOrder(BaseInverterType(seriesnumber), o, configdict)
              = hub.invertertype

C10_Witness ==
    /\ Done
    /\ BaseBits(hub.invertertype) = 4096 + 512 + 1
    /\ configdict = [read_eps |-> TRUE, read_dcb |-> FALSE, read_pm |-> TRUE]
    /\ hub.invertertype = 4096 + 512 + 1 + 32768 + 131072

\* ---------------------------------------------- _read_serialnr, called alone

\* the registers of a device whose firmware delivers identity s with the two
\* bytes of every register exchanged: the first character in the low byte
SwappedRegistersFor(s) ==
    [k \in 1..(Len(s) \div 2) |-> s[2 * k] * 256 + s[2 * k - 1]]

Raw_PS1E == << 80, 83, 49, 69, 83, 49, 50, 48, 78, 54, 65, 48, 48, 49 >>   \* 'PS1ES120N6A001'

\* what the transport may answer, and the swapbytes argument
ReadCalls ==
    [response : Responses
                \cup { OkResponse(SwappedRegistersFor(s)) : s \in Identities }
                \cup { OkResponse(RegistersFor(Raw_PS1E)) },
     swapbytes : BOOLEAN]

InitRead ==
    /\ ResolverInit
    /\ MatchIdle
    /\ PlanIdle
    /\ CodecIdle
    /\ CycleIdle
    /\ readCall \in ReadCalls
    /\ readPc = "called"
    /\ readResult = None

\* _read_serialnr(hub, address, swapbytes) runs to its return
ReadSerial ==
    LET r == read_serialnr(readCall.response, readCall.swapbytes) IN
    /\ readPc = "called"
    /\ readResult' = r.res
    /\ hub' = IF r.stored THEN [hub EXCEPT !.seriesnumber = r.res] ELSE hub
    /\ readPc' = IF r.raised THEN "raised" ELSE "returned"
    /\ UNCHANGED << readCall, pc, seriesnumber, configdict, reads, resolutions,
                    matchVars, planVars, codecVars, cycleVars >>

NextRead == ReadSerial

SpecRead == InitRead /\ [][NextRead]_vars

\* the transport answered with seven registers of ASCII bytes
FourteenRead ==
    /\ readCall.response.kind = "ok"
    /\ Len(readCall.response.registers) = 7
    /\ \A k \in 1..7 : /\ readCall.response.registers[k] \div 256 < 128
                       /\ readCall.response.registers[k] % 256 < 128

Str_PS1E == << 80, 83, 49, 69 >>        \* 'PS1E'
Str_SP1E == << 83, 80, 49, 69 >>        \* 'SP1E'
Str_SPE1 == << 83, 80, 69, 49 >>        \* 'SPE1'

\* the fourteen characters of the registers, the high byte of every register
\* first when lowFirst is false, the low byte first when it is true
CharsOf(regs, lowFirst) ==
    [j \in 1..14 |->
        LET w == regs[(j + 1) \div 2] IN
        IF (j % 2 = 1) = lowFirst THEN w % 256 ELSE w \div 256]

\* the fourteen characters were read as 'PS1E...'
ReadPS1E == SubSeq(CharsOf(readCall.response.registers, FALSE), 1, 4) = Str_PS1E

\* C11, as stated: a returned _read_serialnr call that read fourteen ASCII
\* characters gives, with the swap flag set, the identity with bytes 2i and 2i+1
\* exchanged for every i in 0..6, raw 'PS1E...' coming out as 'SP1E...', and with
\* the flag clear the fourteen characters as read
C11_SwapGivesSP1E ==
    (readPc = "returned" /\ FourteenRead) =>
        /\ readResult = CharsOf(readCall.response.registers, readCall.swapbytes)
        /\ (readCall.swapbytes /\ ReadPS1E) => SubSeq(readResult, 1, 4) = Str_SP1E

\* C11: a returned _read_serialnr call that read fourteen ASCII characters gives,
\* with the swap flag set, the identity with bytes 2i and 2i+1 exchanged for every
\* i in 0..6 (the low byte of every register first), raw 'PS1E...' coming out as
\* 'SPE1...'; with the flag clear it gives the fourteen characters as read; the
\* hub keeps the value returned
C11_SwapBytes ==
    (readPc = "returned" /\ FourteenRead) =>
        /\ readResult = CharsOf(readCall.response.registers, readCall.swapbytes)
        /\ hub.seriesnumber = readResult
        /\ (readCall.swapbytes /\ ReadPS1E) => SubSeq(readResult, 1, 4) = Str_SPE1
        /\ (~readCall.swapbytes /\ ReadPS1E) => SubSeq(readResult, 1, 4) = Str_PS1E

\* a swapped read of raw 'PS1E...' has returned 'SPE1...'
C11_Witness ==
    /\ readPc = "returned"
    /\ FourteenRead
    /\ readCall.swapbytes
    /\ ReadPS1E
    /\ SubSeq(readResult, 1, 4) = Str_SPE1

\* ------------------------------------------------------ the descriptor catalog

\* the register kinds of const.py that the rows name in unit =
REGISTER_U16 == "REGISTER_U16"
REGISTER_S16 == "REGISTER_S16"
REGISTER_U32 == "REGISTER_U32"
REGISTER_S32 == "REGISTER_S32"
REGISTER_STR == "REGISTER_STR"

\* an optional number: << >> for None, << n >> for n
NoNumber == << >>
Some(n) == << n >>

\* a sensor description that loses its newblock argument
Sensor_NoNewblock(key, register, unit, wordcount, newblock, allowedtypes) ==
    [key |-> key, register |-> register, unit |-> unit, wordcount |-> wordcount,
     newblock |-> FALSE, allowedtypes |-> allowedtypes, blacklist |-> NoneList]

\* SofarModbusSensorEntityDescription(key =, register =, unit =, wordcount =,
\* newblock =, allowedtypes =): a row that gives no unit has REGISTER_U16 (line
\* 140), one that gives no wordcount has 0 here, one that gives no newblock has
\* False; no row gives a blacklist
Sensor(key, register, unit, wordcount, newblock, allowedtypes) ==
    [key |-> key, register |-> register, unit |-> unit, wordcount |-> wordcount,
     newblock |-> newblock, allowedtypes |-> allowedtypes, blacklist |-> NoneList]

\* a number description that loses its native_max_value argument
Number_NoMax(key, register, fmt, native_min_value, native_max_value, native_step, allowedtypes) ==
    [key |-> key, register |-> register, unit |-> REGISTER_U16, wordcount |-> 0,
     newblock |-> FALSE, allowedtypes |-> allowedtypes, blacklist |-> NoneList,
     fmt |-> fmt, native_min_value |-> Some(native_min_value),
     native_max_value |-> NoNumber, native_step |-> native_step]

\* SofarModbusNumberEntityDescription(key =, register =, fmt =,
\* native_min_value =, native_max_value =, native_step =, allowedtypes =): one
\* register, written in format fmt
Number(key, register, fmt, native_min_value, native_max_value, native_step, allowedtypes) ==
    [key |-> key, register |-> register, unit |-> REGISTER_U16, wordcount |-> 0,
     newblock |-> FALSE, allowedtypes |-> allowedtypes, blacklist |-> NoneList,
     fmt |-> fmt, native_min_value |-> Some(native_min_value),
     native_max_value |-> Some(native_max_value), native_step |-> native_step]

\* SofarModbusSelectEntityDescription(key =, register =, allowedtypes =)
Select(key, register, allowedtypes) ==
    [key |-> key, register |-> register, unit |-> REGISTER_U16, wordcount |-> 0,
     newblock |-> FALSE, allowedtypes |-> allowedtypes, blacklist |-> NoneList]

BUTTON_TYPES == << >>

\* the first rows with module_temperature_1 placed right after
\* heatsink_temperature_2, at 0x41C
RealTimeDataArea_Contiguous == <<
    Sensor("heatsink_temperature_1", 1050, REGISTER_S16, 0, TRUE, HYBRID),
    Sensor("heatsink_temperature_2", 1051, REGISTER_S16, 0, FALSE, BitOr(HYBRID, PV)),
    Sensor("module_temperature_1", 1052, REGISTER_S16, 0, FALSE, BitOr(HYBRID, PV)),
    Sensor("module_temperature_2", 1057, REGISTER_S16, 0, FALSE, BitOr(HYBRID, PV)),
    Sensor("serial_number", 1093, REGISTER_STR, 7, TRUE, BitOr(HYBRID, PV)) >>

\* SENSOR_TYPES, section by section of the source
\* lines 186-239
RealTimeDataArea == <<
    Sensor("heatsink_temperature_1", 1050, REGISTER_S16, 0, TRUE, HYBRID),   \* 0x41A
    Sensor("heatsink_temperature_2", 1051, REGISTER_S16, 0, FALSE, BitOr(HYBRID, PV)),   \* 0x41B
    Sensor("module_temperature_1", 1056, REGISTER_S16, 0, FALSE, BitOr(HYBRID, PV)),   \* 0x420
    Sensor("module_temperature_2", 1057, REGISTER_S16, 0, FALSE, BitOr(HYBRID, PV)),   \* 0x421
    Sensor("serial_number", 1093, REGISTER_STR, 7, TRUE, BitOr(HYBRID, PV)) >>   \* 0x445

\* lines 245-765
OnGridOutput == <<
    Sensor("grid_frequency", 1156, REGISTER_U16, 0, TRUE, BitOr(HYBRID, PV)),   \* 0x484
    Sensor("active_power_output_total", 1157, REGISTER_S16, 0, FALSE, BitOr(HYBRID, PV)),   \* 0x485
    Sensor("reactive Power_output_total", 1158, REGISTER_S16, 0, FALSE, BitOr(HYBRID, PV)),   \* 0x486
    Sensor("apparent_power_output_total", 1159, REGISTER_S16, 0, FALSE, BitOr(HYBRID, PV)),   \* 0x487
    Sensor("active_power_pcc_total", 1160, REGISTER_S16, 0, FALSE, BitOr(HYBRID, PV)),   \* 0x488
    Sensor("reactive Power_pcc_total", 1161, REGISTER_S16, 0, FALSE, BitOr(HYBRID, PV)),   \* 0x489
    Sensor("apparent_power_pcc_total", 1162, REGISTER_S16, 0, FALSE, BitOr(HYBRID, PV)),   \* 0x48A
    Sensor("voltage_l1", 1165, REGISTER_U16, 0, FALSE, BitOr(HYBRID, PV)),   \* 0x48D
    Sensor("current_output_l1", 1166, REGISTER_U16, 0, FALSE, BitOr(HYBRID, PV)),   \* 0x48E
    Sensor("active_power_output_l1", 1167, REGISTER_S16, 0, FALSE, BitOr(HYBRID, PV)),   \* 0x48F
    Sensor("reactive Power_output_l1", 1168, REGISTER_S16, 0, FALSE, BitOr(HYBRID, PV)),   \* 0x490
    Sensor("power_factor_output_l1", 1169, REGISTER_S16, 0, FALSE, BitOr(HYBRID, PV)),   \* 0x491
    Sensor("current_pcc_l1", 1170, REGISTER_U16, 0, FALSE, BitOr(HYBRID, PV)),   \* 0x492
    Sensor("active_power_pcc_l1", 1171, REGISTER_S16, 0, FALSE, BitOr(HYBRID, PV)),   \* 0x493
    Sensor("reactive Power_pcc_l1", 1172, REGISTER_S16, 0, FALSE, BitOr(HYBRID, PV)),   \* 0x494
    Sensor("power_factor_pcc_l1", 1173, REGISTER_S16, 0, FALSE, BitOr(HYBRID, PV)),   \* 0x495
    Sensor("voltage_l2", 1176, REGISTER_U16, 0, FALSE, BitOr(HYBRID, PV)),   \* 0x498
    Sensor("current_output_l2", 1177, REGISTER_U16, 0, FALSE, BitOr(HYBRID, PV)),   \* 0x499
    Sensor("active_power_output_l2", 1178, REGISTER_S16, 0, FALSE, BitOr(HYBRID, PV)),   \* 0x49A
    Sensor("reactive Power_output_l2", 1179, REGISTER_S16, 0, FALSE, BitOr(HYBRID, PV)),   \* 0x49B
    Sensor("power_factor_output_l2", 1180, REGISTER_S16, 0, FALSE, BitOr(HYBRID, PV)),   \* 0x49C
    Sensor("current_pcc_l2", 1181, REGISTER_U16, 0, FALSE, BitOr(HYBRID, PV)),   \* 0x49D
    Sensor("active_power_pcc_l2", 1182, REGISTER_S16, 0, FALSE, BitOr(HYBRID, PV)),   \* 0x49E
    Sensor("reactive Power_pcc_l2", 1183, REGISTER_S16, 0, FALSE, BitOr(HYBRID, PV)),   \* 0x49F
    Sensor("power_factor_pcc_l2", 1184, REGISTER_S16, 0, FALSE, BitOr(HYBRID, PV)),   \* 0x4A0
    Sensor("voltage_l3", 1187, REGISTER_U16, 0, FALSE, BitOr(HYBRID, PV)),   \* 0x4A3
    Sensor("current_output_l3", 1188, REGISTER_U16, 0, FALSE, BitOr(HYBRID, PV)),   \* 0x4A4
    Sensor("active_power_output_l3", 1189, REGISTER_S16, 0, FALSE, BitOr(HYBRID, PV)),   \* 0x4A5
    Sensor("reactive Power_output_l3", 1190, REGISTER_S16, 0, FALSE, BitOr(HYBRID, PV)),   \* 0x4A6
    Sensor("power_factor_output_l3", 1191, REGISTER_S16, 0, FALSE, BitOr(HYBRID, PV)),   \* 0x4A7
    Sensor("current_pcc_l3", 1192, REGISTER_U16, 0, FALSE, BitOr(HYBRID, PV)),   \* 0x4A8
    Sensor("active_power_pcc_l3", 1193, REGISTER_S16, 0, FALSE, BitOr(HYBRID, PV)),   \* 0x4A9
    Sensor("reactive Power_pcc_l3", 1194, REGISTER_S16, 0, FALSE, BitOr(HYBRID, PV)),   \* 0x4AA
    Sensor("power_factor_pcc_l3", 1195, REGISTER_S16, 0, FALSE, BitOr(HYBRID, PV)),   \* 0x4AB
    Sensor("active_power_pv_ext", 1198, REGISTER_U16, 0, FALSE, BitOr(HYBRID, PV)),   \* 0x4AE
    Sensor("active_power_load_sys", 1199, REGISTER_U16, 0, FALSE, BitOr(HYBRID, PV)),   \* 0x4AF
    Sensor("voltage_phase_l1n", 1200, REGISTER_U16, 0, FALSE, BitOr(HYBRID, PV)),   \* 0x4B0
    Sensor("current_output_l1n", 1201, REGISTER_U16, 0, FALSE, BitOr(HYBRID, PV)),   \* 0x4B1
    Sensor("active_power_output_l1n", 1202, REGISTER_S16, 0, FALSE, BitOr(HYBRID, PV)),   \* 0x4B2
    Sensor("current_pcc_l1n", 1203, REGISTER_U16, 0, FALSE, BitOr(HYBRID, PV)),   \* 0x4B3
    Sensor("active_power_pcc_l1n", 1204, REGISTER_S16, 0, FALSE, BitOr(HYBRID, PV)),   \* 0x4B4
    Sensor("voltage_phase_l2n", 1205, REGISTER_U16, 0, FALSE, BitOr(HYBRID, PV)),   \* 0x4B5
    Sensor("current_output_l2n", 1206, REGISTER_U16, 0, FALSE, BitOr(HYBRID, PV)),   \* 0x4B6
    Sensor("active_power_output_l2n", 1207, REGISTER_S16, 0, FALSE, BitOr(HYBRID, PV)),   \* 0x4B7
    Sensor("current_pcc_l2n", 1208, REGISTER_U16, 0, FALSE, BitOr(HYBRID, PV)),   \* 0x4B8
    Sensor("active_power_pcc_l2n", 1209, REGISTER_S16, 0, FALSE, BitOr(HYBRID, PV)),   \* 0x4B9
    Sensor("voltage_line_l1", 1210, REGISTER_U16, 0, FALSE, BitOr(HYBRID, PV)),   \* 0x4BA
    Sensor("voltage_line_l2", 1211, REGISTER_U16, 0, FALSE, BitOr(HYBRID, PV)),   \* 0x4BB
    Sensor("voltage_line_l3", 1212, REGISTER_U16, 0, FALSE, BitOr(HYBRID, PV)) >>   \* 0x4BC

\* lines 772-1076
OffGridOutput == <<
    Sensor("active_power_offgrid_total", 1284, REGISTER_S16, 0, FALSE, BitOr(BitOr(HYBRID, X3), EPS)),   \* 0x504
    Sensor("reactive Power_offgrid_total", 1285, REGISTER_S16, 0, FALSE, BitOr(BitOr(HYBRID, X3), EPS)),   \* 0x505
    Sensor("apparent_power_offgrid_total", 1286, REGISTER_S16, 0, FALSE, BitOr(BitOr(HYBRID, X3), EPS)),   \* 0x506
    Sensor("offgrid_frequency", 1287, REGISTER_U16, 0, FALSE, BitOr(BitOr(HYBRID, X3), EPS)),   \* 0x507
    Sensor("offgrid_voltage_l1", 1290, REGISTER_U16, 0, FALSE, BitOr(BitOr(HYBRID, X3), EPS)),   \* 0x50A
    Sensor("offgrid_current_output_l1", 1291, REGISTER_S16, 0, FALSE, BitOr(BitOr(HYBRID, X3), EPS)),   \* 0x50B
    Sensor("offgrid_active_power_output_l1", 1292, REGISTER_S16, 0, FALSE, BitOr(BitOr(HYBRID, X3), EPS)),   \* 0x50C
    Sensor("offgrid_reactive Power_output_l1", 1293, REGISTER_S16, 0, FALSE, BitOr(BitOr(HYBRID, X3), EPS)),   \* 0x50D
    Sensor("offgrid_apparent_power_output_l1", 1294, REGISTER_S16, 0, FALSE, BitOr(BitOr(HYBRID, X3), EPS)),   \* 0x50E
    Sensor("offgrid_loadpeakratio_l1", 1295, REGISTER_U16, 0, FALSE, BitOr(BitOr(HYBRID, X3), EPS)),   \* 0x50F
    Sensor("offgrid_voltage_l2", 1298, REGISTER_U16, 0, FALSE, BitOr(BitOr(HYBRID, X3), EPS)),   \* 0x512
    Sensor("offgrid_current_output_l2", 1299, REGISTER_S16, 0, FALSE, BitOr(BitOr(HYBRID, X3), EPS)),   \* 0x513
    Sensor("offgrid_active_power_output_l2", 1300, REGISTER_S16, 0, FALSE, BitOr(BitOr(HYBRID, X3), EPS)),   \* 0x514
    Sensor("offgrid_reactive Power_output_l2", 1301, REGISTER_S16, 0, FALSE, BitOr(BitOr(HYBRID, X3), EPS)),   \* 0x515
    Sensor("offgrid_apparent_power_output_l2", 1302, REGISTER_S16, 0, FALSE, BitOr(BitOr(HYBRID, X3), EPS)),   \* 0x516
    Sensor("offgrid_loadpeakratio_l2", 1303, REGISTER_U16, 0, FALSE, BitOr(BitOr(HYBRID, X3), EPS)),   \* 0x517
    Sensor("offgrid_voltage_l3", 1306, REGISTER_U16, 0, FALSE, BitOr(BitOr(HYBRID, X3), EPS)),   \* 0x51A
    Sensor("offgrid_current_output_l3", 1307, REGISTER_S16, 0, FALSE, BitOr(BitOr(HYBRID, X3), EPS)),   \* 0x51B
    Sensor("offgrid_active_power_output_l3", 1308, REGISTER_S16, 0, FALSE, BitOr(BitOr(HYBRID, X3), EPS)),   \* 0x51C
    Sensor("offgrid_reactive Power_output_l3", 1309, REGISTER_S16, 0, FALSE, BitOr(BitOr(HYBRID, X3), EPS)),   \* 0x51D
    Sensor("offgrid_apparent_power_output_l3", 1310, REGISTER_S16, 0, FALSE, BitOr(BitOr(HYBRID, X3), EPS)),   \* 0x51E
    Sensor("offgrid_loadpeakratio_l3", 1311, REGISTER_U16, 0, FALSE, BitOr(BitOr(HYBRID, X3), EPS)),   \* 0x51F
    Sensor("offgrid_voltage_output_l1n", 1314, REGISTER_U16, 0, FALSE, BitOr(BitOr(HYBRID, X3), EPS)),   \* 0x522
    Sensor("offgrid_current_output_l1n", 1315, REGISTER_S16, 0, FALSE, BitOr(BitOr(HYBRID, X3), EPS)),   \* 0x523
    Sensor("offgrid_active_power_output_l1n", 1316, REGISTER_S16, 0, FALSE, BitOr(BitOr(HYBRID, X3), EPS)),   \* 0x524
    Sensor("offgrid_voltage_output_l2n", 1317, REGISTER_U16, 0, FALSE, BitOr(BitOr(HYBRID, X3), EPS)),   \* 0x525
    Sensor("offgrid_current_output_l2n", 1318, REGISTER_S16, 0, FALSE, BitOr(BitOr(HYBRID, X3), EPS)),   \* 0x526
    Sensor("offgrid_active_power_output_l2n", 1319, REGISTER_S16, 0, TRUE, BitOr(BitOr(HYBRID, X3), EPS)) >>   \* 0x527

\* lines 1082-1221
PVInput == <<
    Sensor("pv_voltage_1", 1412, REGISTER_U16, 0, TRUE, BitOr(BitOr(HYBRID, PV), GEN)),   \* 0x584
    Sensor("pv_current_1", 1413, REGISTER_U16, 0, FALSE, BitOr(BitOr(HYBRID, PV), GEN)),   \* 0x585
    Sensor("pv_power_1", 1414, REGISTER_U16, 0, FALSE, BitOr(BitOr(HYBRID, PV), GEN)),   \* 0x586
    Sensor("pv_voltage_2", 1415, REGISTER_U16, 0, FALSE, BitOr(BitOr(HYBRID, PV), GEN)),   \* 0x587
    Sensor("pv_current_2", 1416, REGISTER_U16, 0, FALSE, BitOr(BitOr(HYBRID, PV), GEN)),   \* 0x588
    Sensor("pv_power_2", 1417, REGISTER_U16, 0, FALSE, BitOr(BitOr(HYBRID, PV), GEN)),   \* 0x589
    Sensor("pv_voltage_3", 1418, REGISTER_U16, 0, FALSE, BitOr(BitOr(HYBRID, PV), GEN)),   \* 0x58A
    Sensor("pv_current_3", 1419, REGISTER_U16, 0, FALSE, BitOr(BitOr(HYBRID, PV), GEN)),   \* 0x58B
    Sensor("pv_power_3", 1420, REGISTER_U16, 0, FALSE, BitOr(BitOr(HYBRID, PV), GEN)),   \* 0x58C
    Sensor("pv_voltage_4", 1421, REGISTER_U16, 0, FALSE, BitOr(BitOr(HYBRID, PV), GEN)),   \* 0x58D
    Sensor("pv_current_4", 1422, REGISTER_U16, 0, FALSE, BitOr(BitOr(HYBRID, PV), GEN)),   \* 0x58E
    Sensor("pv_power_4", 1423, REGISTER_U16, 0, TRUE, BitOr(BitOr(HYBRID, PV), GEN)),   \* 0x58F
    Sensor("pv_total_power", 1476, REGISTER_U16, 0, TRUE, BitOr(BitOr(HYBRID, PV), GEN)) >>   \* 0x5C4

\* lines 1227-1553
BatteryInput == <<
    Sensor("battery_voltage_1", 1540, REGISTER_U16, 0, TRUE, HYBRID),   \* 0x604
    Sensor("battery_current_1", 1541, REGISTER_S16, 0, TRUE, HYBRID),   \* 0x605
    Sensor("Battery_power_1", 1542, REGISTER_S16, 0, FALSE, HYBRID),   \* 0x606
    Sensor("battery_temperature_1", 1543, REGISTER_S16, 0, FALSE, BitOr(HYBRID, GEN)),   \* 0x607
    Sensor("battery_capacity_charge_1", 1544, REGISTER_U16, 0, FALSE, HYBRID),   \* 0x608
    Sensor("battery_state_of_health_1", 1545, REGISTER_U16, 0, FALSE, HYBRID),   \* 0x609
    Sensor("battery_charge_cycle_1", 1546, REGISTER_U16, 0, FALSE, HYBRID),   \* 0x60A
    Sensor("battery_voltage_2", 1547, REGISTER_U16, 0, FALSE, HYBRID),   \* 0x60B
    Sensor("battery_current_2", 1548, REGISTER_S16, 0, FALSE, HYBRID),   \* 0x60C
    Sensor("Battery_power_2", 1549, REGISTER_S16, 0, FALSE, HYBRID),   \* 0x60D
    Sensor("battery_temperature_2", 1550, REGISTER_S16, 0, FALSE, HYBRID),   \* 0x60E
    Sensor("battery_capacity_charge_2", 1551, REGISTER_U16, 0, FALSE, HYBRID),   \* 0x60F
    Sensor("battery_state_of_health_2", 1552, REGISTER_U16, 0, FALSE, HYBRID),   \* 0x610
    Sensor("battery_charge_cycle_2", 1553, REGISTER_U16, 0, FALSE, HYBRID),   \* 0x611
    Sensor("battery_voltage_3", 1554, REGISTER_U16, 0, FALSE, BitOr(HYBRID, GEN)),   \* 0x612
    Sensor("battery_current_3", 1555, REGISTER_S16, 0, FALSE, BitOr(HYBRID, GEN)),   \* 0x613
    Sensor("Battery_power_3", 1556, REGISTER_S16, 0, FALSE, BitOr(HYBRID, GEN)),   \* 0x614
    Sensor("battery_temperature_3", 1557, REGISTER_S16, 0, FALSE, BitOr(HYBRID, GEN)),   \* 0x615
    Sensor("battery_capacity_charge_3", 1558, REGISTER_U16, 0, FALSE, BitOr(HYBRID, GEN)),   \* 0x616
    Sensor("battery_state_of_health_3", 1559, REGISTER_U16, 0, FALSE, BitOr(HYBRID, GEN)),   \* 0x617
    Sensor("battery_charge_cycle_3", 1560, REGISTER_U16, 0, FALSE, BitOr(HYBRID, GEN)),   \* 0x618
    Sensor("battery_voltage_4", 1561, REGISTER_U16, 0, FALSE, BitOr(HYBRID, GEN)),   \* 0x619
    Sensor("battery_current_4", 1562, REGISTER_S16, 0, FALSE, BitOr(HYBRID, GEN)),   \* 0x61A
    Sensor("Battery_power_4", 1563, REGISTER_S16, 0, FALSE, BitOr(HYBRID, GEN)),   \* 0x61B
    Sensor("battery_temperature_4", 1564, REGISTER_S16, 0, FALSE, BitOr(HYBRID, GEN)),   \* 0x61C
    Sensor("battery_capacity_charge_4", 1565, REGISTER_U16, 0, FALSE, BitOr(HYBRID, GEN)),   \* 0x61D
    Sensor("battery_state_of_health_4", 1566, REGISTER_U16, 0, FALSE, BitOr(HYBRID, GEN)),   \* 0x61E
    Sensor("battery_charge_cycle_4", 1567, REGISTER_U16, 0, FALSE, BitOr(HYBRID, GEN)),   \* 0x61F
    Sensor("battery_power_total", 1639, REGISTER_S16, 0, TRUE, HYBRID),   \* 0x667
    Sensor("battery_capacity_charge_total", 1640, REGISTER_U16, 0, FALSE, HYBRID),   \* 0x668
    Sensor("battery_state_of_health_total", 1641, REGISTER_U16, 0, FALSE, HYBRID) >>   \* 0x669

\* lines 1560-1712
ElectricPower == <<
    Sensor("solar_generation_today", 1668, REGISTER_U32, 0, TRUE, BitOr(HYBRID, PV)),   \* 0x684
    Sensor("solar_generation_total", 1670, REGISTER_U32, 0, FALSE, BitOr(HYBRID, PV)),   \* 0x686
    Sensor("load_consumption_today", 1672, REGISTER_U32, 0, FALSE, BitOr(HYBRID, PV)),   \* 0x688
    Sensor("load_consumption_total", 1674, REGISTER_U32, 0, FALSE, BitOr(HYBRID, PV)),   \* 0x68A
    Sensor("import_energy_today", 1676, REGISTER_U32, 0, FALSE, BitOr(HYBRID, PV)),   \* 0x68C
    Sensor("import_energy_total", 1678, REGISTER_U32, 0, FALSE, BitOr(HYBRID, PV)),   \* 0x68E
    Sensor("export_energy_today", 1680, REGISTER_U32, 0, FALSE, BitOr(HYBRID, PV)),   \* 0x690
    Sensor("export_energy_total", 1682, REGISTER_U32, 0, FALSE, BitOr(HYBRID, PV)),   \* 0x692
    Sensor("battery_input_energy_today", 1684, REGISTER_U32, 0, FALSE, HYBRID),   \* 0x694
    Sensor("battery_input_energy_total", 1686, REGISTER_U32, 0, FALSE, HYBRID),   \* 0x696
    Sensor("battery_output_energy_today", 1688, REGISTER_U32, 0, FALSE, HYBRID),   \* 0x698
    Sensor("battery_Output_energy_total", 1690, REGISTER_U32, 0, FALSE, HYBRID) >>   \* 0x69A

\* lines 1719-1751
BasicParameterConfiguration == <<
    Sensor("eps_control", 4137, REGISTER_U16, 0, TRUE, BitOr(BitOr(HYBRID, X3), EPS)),   \* 0x1029
    Sensor("battery_active_control", 4139, REGISTER_U16, 0, FALSE, HYBRID),   \* 0x102B
    Sensor("parallel_control", 4149, REGISTER_U16, 0, FALSE, BitOr(BitOr(BitOr(HYBRID, PV), X3), PM)),   \* 0x1035
    Sensor("parallel_masterslave", 4150, REGISTER_U16, 0, FALSE, BitOr(BitOr(BitOr(HYBRID, PV), X3), PM)),   \* 0x1036
    Sensor("parallel_address", 4151, REGISTER_U16, 0, FALSE, BitOr(BitOr(BitOr(HYBRID, PV), X3), PM)) >>   \* 0x1037

\* lines 1757-1785
RemoteControl == <<
    Sensor("remote_control", 4356, REGISTER_U16, 0, TRUE, HYBRID),   \* 0x1104
    Sensor("charger_use_mode", 4368, REGISTER_U16, 0, FALSE, HYBRID),   \* 0x1110
    Sensor("timing_charge_onoff", 4370, REGISTER_U16, 0, FALSE, HYBRID),   \* 0x1112
    Sensor("time_of_use_onoff", 4385, REGISTER_U16, 0, FALSE, HYBRID) >>   \* 0x1121

SENSOR_TYPES ==
    RealTimeDataArea \o OnGridOutput \o OffGridOutput \o PVInput \o BatteryInput
    \o ElectricPower \o BasicParameterConfiguration \o RemoteControl

\* the number rows with one that gives no allowedtypes, and so has ALLDEFAULT
NUMBER_TYPES_DefaultMask == <<
    Number("battery_minimum_capacity", 4173, "i", 1, 90, 1, HYBRID),
    Number("battery_minimum_capacity_offgrid", 4174, "i", 1, 90, 1, ALLDEFAULT),
    Number("parallel_address", 4151, "i", 0, 10, 1, BitOr(BitOr(BitOr(HYBRID, PV), X3), PM)),
    Number("time_of_use_charge_soc", 4388, "i", 30, 100, 1, HYBRID) >>

\* lines 1792-1839, lines 1845-1929
NUMBER_TYPES == <<
    Number("battery_minimum_capacity", 4173, "i", 1, 90, 1, HYBRID),
    Number("battery_minimum_capacity_offgrid", 4174, "i", 1, 90, 1, HYBRID),
    Number("parallel_address", 4151, "i", 0, 10, 1, BitOr(BitOr(BitOr(HYBRID, PV), X3), PM)),
    Number("time_of_use_charge_soc", 4388, "i", 30, 100, 1, HYBRID) >>

SELECT_TYPES == <<
    Select("eps_control", 4137, BitOr(BitOr(HYBRID, X3), EPS)),
    Select("battery_active_control", 4139, HYBRID),
    Select("parallel_control", 4149, BitOr(BitOr(BitOr(HYBRID, PV), X3), PM)),
    Select("parallel_masterslave", 4150, BitOr(BitOr(BitOr(HYBRID, PV), X3), PM)),
    Select("remote_control", 4356, HYBRID),
    Select("charger_use_mode", 4368, HYBRID),
    Select("timing_charge_onoff", 4370, HYBRID),
    Select("time_of_use_onoff", 4385, HYBRID) >>

\* ------------------------------------------- resolveActiveSet and planBlocks

\* resolveActiveSet(catalog, deviceCapabilities, serialNumber): the catalog in
\* its order, a descriptor kept iff matchInverterWithMask holds for it
resolveActiveSet(cat, invertertype, serialnumber) ==
    SelectSeq(cat, LAMBDA d : matchInverterWithMask(invertertype, d.allowedtypes,
                                                    serialnumber, d.blacklist))

\* the registers a descriptor spans
WordCount(d) ==
    IF d.unit \in {REGISTER_U32, REGISTER_S32} THEN 2
    ELSE IF d.unit = REGISTER_STR THEN d.wordcount
    ELSE 1

\* a planner that starts a new block only at a flag or when the block is full
StartsNewBlock_IgnoreGap(block, d, maxW) ==
    \/ d.newblock
    \/ block.wordCount + WordCount(d) > maxW

\* the planner's three reasons to close the current block before descriptor d:
\* (a) d is flagged block-starting, (b) d does not start where the block ends,
\* (c) the block with d would exceed the maximum word count
StartsNewBlock(block, d, maxW) ==
    \/ d.newblock
    \/ d.register # block.startAddress + block.wordCount
    \/ block.wordCount + WordCount(d) > maxW

\* one step of the walk: descriptor d opens a block or extends the last one
PlanStep(done, d, maxW) ==
    LET n == Len(done) IN
    IF n = 0 \/ StartsNewBlock(done[n], d, maxW)
    THEN Append(done, [startAddress |-> d.register,
                       wordCount |-> WordCount(d),
                       members |-> << d >>])
    ELSE [done EXCEPT ![n] = [startAddress |-> done[n].startAddress,
                              wordCount |-> done[n].wordCount + WordCount(d),
                              members |-> Append(done[n].members, d)]]

\* the walk over the descriptors lo..hi of the Active Point Set in order, done
\* being the blocks planned before lo (the range is halved to keep the
\* evaluation shallow; the steps are taken in order all the same)
RECURSIVE PlanRange(_, _, _, _, _)
PlanRange(done, active, lo, hi, maxW) ==
    IF lo > hi THEN done
    ELSE IF lo = hi THEN PlanStep(done, active[lo], maxW)
    ELSE LET mid == (lo + hi) \div 2
             first == PlanRange(done, active, lo, mid, maxW)
         IN  \* first holds a block at least: it is computed before the rest is walked
             IF first = << >> THEN first
             ELSE PlanRange(first, active, mid + 1, hi, maxW)

\* planBlocks(activeSet) under the configured maximum block word count
planBlocks(active, maxW) == PlanRange(<< >>, active, 1, Len(active), maxW)

\* a descriptor's offset into the words its block returns
Offset(block, d) == d.register - block.startAddress

\* the largest maximum block word count tried
MaxBlockWords == 8

\* one identity for each outcome of the prefix chain, the failed read, and
\* the identities of the resolver: one for each prefix at least
PlanIdentities ==
    { << 83, 80, 49, 69, 83, 49, 50, 48, 78, 54, 65, 48, 48, 49 >>,      \* 'SP1ES120N6A001'
      << 83, 80, 49, 69, 83, 49, 49, 48, 78, 54, 65, 48, 48, 49 >>,      \* 'SP1ES110N6A001'
      << 83, 83, 50, 69, 48, 48, 48, 48, 48, 48, 48, 48, 48, 48 >>,      \* 'SS2E0000000000'
      << 83, 65, 49, 48, 48, 48, 48, 48, 48, 48, 48, 48, 48, 48 >>,      \* 'SA100000000000'
      << 83, 74, 50, 48, 48, 48, 48, 48, 48, 48, 48, 48, 48, 48 >>,      \* 'SJ200000000000'
      << 88, 89, 57, 69, 83, 49, 49, 48, 78, 54, 65, 48, 48, 49 >>,      \* 'XY9ES110N6A001'
      Str_unknown }
    \cup Identities

\* the devices determineInverterType leaves on the hub for these identities
Devices ==
    { [invertertype |-> ApplyOverrides(BaseInverterType(s), cfg), seriesnumber |-> s] :
        s \in PlanIdentities, cfg \in Configs }

\* the catalogs of the plugin, one by one and as a whole
Catalogs ==
    { BUTTON_TYPES, SENSOR_TYPES, NUMBER_TYPES, SELECT_TYPES,
      SENSOR_TYPES \o NUMBER_TYPES \o SELECT_TYPES }

InitPlan ==
    /\ ResolverInit
    /\ MatchIdle
    /\ ReadIdle
    /\ CodecIdle
    /\ CycleIdle
    /\ catalog \in Catalogs
    /\ inverter \in Devices
    /\ maxWords = 0
    /\ planPc = "called"
    /\ activeSet = << >>
    /\ blocks = << >>

\* the Active Point Set of the device is resolved from the catalog
ResolveActiveSet ==
    /\ planPc = "called"
    /\ activeSet' = resolveActiveSet(catalog, inverter.invertertype, inverter.seriesnumber)
    /\ planPc' = "resolved"
    /\ UNCHANGED << catalog, inverter, maxWords, blocks,
                    resolverVars, matchVars, readVars, codecVars, cycleVars >>

\* the blocks are planned under a configured maximum block word count
PlanBlocks ==
    /\ planPc = "resolved"
    /\ \E m \in 1..MaxBlockWords :
          /\ maxWords' = m
          /\ blocks' = planBlocks(activeSet, m)
    /\ planPc' = "planned"
    /\ UNCHANGED << catalog, inverter, activeSet,
                    resolverVars, matchVars, readVars, codecVars, cycleVars >>

NextPlan == ResolveActiveSet \/ PlanBlocks

SpecPlan == InitPlan /\ [][NextPlan]_vars

\* the Active Point Set has been resolved
Resolved == planPc \in {"resolved", "planned"}

\* the plan has been built
Planned == planPc = "planned"

\* descriptor d asks for a flag of some capability group
RequiresGroupBit(d) ==
    \E k \in 1..Len(GroupFlags) : \E f \in GroupFlags[k] : HasFlag(d.allowedtypes, f)

\* C12: when the resolved capability mask is zero, the Active Point Set resolved
\* from the sensor, number and select catalogs (each alone, or all together) is
\* empty, and every descriptor of the catalog asks for at least one flag of a
\* capability group, which the zero mask lacks
C12_ZeroMaskEmptySet ==
    (Resolved /\ inverter.invertertype = 0) =>
        /\ activeSet = << >>
        /\ \A i \in 1..Len(catalog) : RequiresGroupBit(catalog[i])

\* the whole catalog was resolved for a device of capability mask zero
C12_Witness ==
    /\ Resolved
    /\ inverter.invertertype = 0
    /\ Len(catalog) = Len(SENSOR_TYPES) + Len(NUMBER_TYPES) + Len(SELECT_TYPES)
    /\ activeSet = << >>

\* the device's serial number starts with a prefix of descriptor d's blacklist
OnBlacklist(d) ==
    /\ d.blacklist # NoneList
    /\ \E j \in 1..Len(d.blacklist) : HasPrefix(inverter.seriesnumber, d.blacklist[j])

\* the catalog positions whose descriptor applies to the device: every group in
\* which the descriptor asks for a flag has one of these flags on the device,
\* and the serial number is not blacklisted
MatchingPositions ==
    { i \in 1..Len(catalog) :
        /\ AllGroupsSatisfied(inverter.invertertype, catalog[i].allowedtypes)
        /\ ~OnBlacklist(catalog[i]) }

\* C13: resolveActiveSet returns exactly the descriptors of the catalog for which
\* matches holds, in catalog order: the j-th descriptor of the Active Point Set
\* is the descriptor at the j-th matching position of the catalog, so none is
\* dropped (every matching variant of one key is there), none is added, and
\* the order is the catalog's
C13_ExactFilterInOrder ==
    (planPc = "resolved") =>
        LET matching == MatchingPositions IN
        /\ Len(activeSet) = Cardinality(matching)
        /\ \A i \in matching :
              activeSet[Cardinality({ k \in matching : k <= i })] = catalog[i]

\* a resolved set that holds two variants of one key and leaves descriptors out
C13_Witness ==
    /\ planPc = "resolved"
    /\ Len(activeSet) < Len(catalog)
    /\ \E i, j \in 1..Len(activeSet) : i < j /\ activeSet[i].key = activeSet[j].key

\* the registers the first k members of block b span
RECURSIVE WordsOfFirst(_, _)
WordsOfFirst(b, k) ==
    IF k = 0 THEN 0 ELSE WordsOfFirst(b, k - 1) + WordCount(b.members[k])

\* every member of every block but the first of the block starts where the
\* members before it end
NoGapInsideBlocks ==
    \A n \in 1..Len(blocks) :
        \A k \in 2..Len(blocks[n].members) :
            blocks[n].members[k].register
                = blocks[n].startAddress + WordsOfFirst(blocks[n], k - 1)

\* no block holds both the descriptor of key1 and the descriptor of key2
NeverTogether(key1, key2) ==
    \A n \in 1..Len(blocks) :
        ~\E j, k \in 1..Len(blocks[n].members) :
            /\ blocks[n].members[j].key = key1
            /\ blocks[n].members[k].key = key2

C15_FlaggedStartsBlock ==
    Planned =>
        \A n \in 1..Len(blocks) :
            \A k \in 2..Len(blocks[n].members) :
                /\ ~blocks[n].members[k].newblock
                /\ blocks[n].members[k].key # "battery_current_1"

\* battery_voltage_1 ends a block, battery_current_1 heads the next one at the
\* address where the former ends, and the maximum would have let them merge
C15_Witness ==
    /\ Planned
    /\ maxWords >= 2
    /\ \E n \in 1..(Len(blocks) - 1) :
          /\ blocks[n].members[Len(blocks[n].members)].key = "battery_voltage_1"
          /\ blocks[n + 1].members[1].key = "battery_current_1"
          /\ blocks[n + 1].members[1].newblock
          /\ blocks[n + 1].startAddress = blocks[n].startAddress + blocks[n].wordCount

\* the members of the blocks lo..hi, in order
RECURSIVE MembersOf(_, _)
MembersOf(lo, hi) ==
    IF lo > hi THEN << >>
    ELSE IF lo = hi THEN blocks[lo].members
    ELSE MembersOf(lo, (lo + hi) \div 2) \o MembersOf((lo + hi) \div 2 + 1, hi)

\* C16: the blocks partition the Active Point Set and keep its order (their
\* members, block after block, are the Active Point Set; no block is empty);
\* every member's register range lies inside its block, its offset (address
\* minus block start) is the number of words of the members before it, and
\* offset plus word count is at most the block's word count
C16_BlocksPartition ==
    Planned =>
        /\ MembersOf(1, Len(blocks)) = activeSet
        /\ \A n \in 1..Len(blocks) :
              LET b == blocks[n] IN
              /\ Len(b.members) >= 1
              /\ \A k \in 1..Len(b.members) :
                    LET d == b.members[k] IN
                    /\ b.startAddress <= d.register
                    /\ d.register + WordCount(d) <= b.startAddress + b.wordCount
                    /\ Offset(b, d) = WordsOfFirst(b, k - 1)
                    /\ Offset(b, d) + WordCount(d) <= b.wordCount

\* a plan of several blocks, one of them with a member at a non-zero offset
\* that ends where the block ends
C16_Witness ==
    /\ Planned
    /\ Len(blocks) > 2
    /\ Len(activeSet) > Len(blocks)
    /\ \E n \in 1..Len(blocks) :
          LET b == blocks[n]
              d == b.members[Len(b.members)]
          IN  /\ Offset(b, d) > 0
              /\ Offset(b, d) + WordCount(d) = b.wordCount

\* ------------------------------------------------------------ the value codec

\* typed values, scales and rounding steps are counted in hundredths: 1234 is
\* 12.34, a scale of 10 is 0.1, a scale of 100 is 1
Hundredths == 100

\* the word orders of pymodbus that order32 names (line 139)
Endian_Big == "Endian.Big"
Endian_Little == "Endian.Little"

Is32(d) == d.unit \in {REGISTER_U32, REGISTER_S32}
IsSigned(d) == d.unit \in {REGISTER_S16, REGISTER_S32}

\* a / b cut toward zero, the integer the quotient is truncated to
Trunc(a, b) == IF a >= 0 THEN a \div b ELSE -((-a) \div b)

\* x rounded to the nearest multiple of step, halves away from zero
RoundTo(x, step) ==
    IF x >= 0 THEN ((x + step \div 2) \div step) * step
    ELSE -(((-x + step \div 2) \div step) * step)

\* the step of a rounding to 2, 1 or 0 decimal places
RoundStep(rounding) == CASE rounding = 2 -> 1 [] rounding = 1 -> 10 [] rounding = 0 -> 100

\* value v respects the bounds descriptor d declares
InBounds(v, d) ==
    /\ d.native_min_value = NoNumber \/ v >= d.native_min_value[1] * Hundredths
    /\ d.native_max_value = NoNumber \/ v <= d.native_max_value[1] * Hundredths

\* a decode that takes the first word for the high one whatever order32 says
decode_HighFirst(blockWords, d) ==
    LET raw == IF ~Is32(d)
               THEN IF IsSigned(d) /\ blockWords[1] >= 32768
                    THEN blockWords[1] - 65536 ELSE blockWords[1]
               ELSE IF IsSigned(d) /\ blockWords[1] >= 32768
                    THEN (blockWords[1] - 65536) * 65536 + blockWords[2]
                    ELSE blockWords[1] * 65536 + blockWords[2]
    IN  RoundTo(raw * d.scale, RoundStep(d.rounding))

\* encode(value, descriptor): divide by scale, truncate to an integer of the
\* descriptor's width (two's complement), split into words in the declared
\* word order
encode(v, d) ==
    LET raw == Trunc(v, d.scale)
        hi == (raw \div 65536) % 65536
        lo == raw % 65536
    IN  IF ~Is32(d) THEN << lo >>
        ELSE IF d.order32 = Endian_Big THEN << hi, lo >>
        ELSE << lo, hi >>

\* decode(blockWords, descriptor) of the descriptor's words: combine the words
\* in the declared word order, apply the sign, then the scale, then the rounding
decode(blockWords, d) ==
    LET hi == IF d.order32 = Endian_Big THEN blockWords[1] ELSE blockWords[2]
        lo == IF d.order32 = Endian_Big THEN blockWords[2] ELSE blockWords[1]
        raw == IF ~Is32(d)
               THEN IF IsSigned(d) /\ blockWords[1] >= 32768
                    THEN blockWords[1] - 65536 ELSE blockWords[1]
               ELSE IF IsSigned(d) /\ hi >= 32768
                    THEN (hi - 65536) * 65536 + lo
                    ELSE hi * 65536 + lo
    IN  RoundTo(raw * d.scale, RoundStep(d.rounding))

\* a number row as the codec sees it: the row gives no order32, scale or
\* rounding, so these are Endian.Big, 1 and none
WritableOf(n) ==
    [key |-> n.key, register |-> n.register, unit |-> n.unit,
     order32 |-> Endian_Big, scale |-> Hundredths, rounding |-> 2,
     native_min_value |-> n.native_min_value,
     native_max_value |-> n.native_max_value]

\* the declared bounds tried for a layout: the whole range of the register
\* kind at that scale, cut to whole numbers and, for 32 bits, to twenty million
LayoutMin(unit, scale) ==
    CASE unit = REGISTER_U16 -> 0
      [] unit = REGISTER_U32 -> 0
      [] unit = REGISTER_S16 -> -((32768 * scale) \div Hundredths)
      [] unit = REGISTER_S32 -> -20000000

LayoutMax(unit, scale) ==
    CASE unit = REGISTER_U16 -> (65535 * scale) \div Hundredths
      [] unit = REGISTER_S16 -> (32767 * scale) \div Hundredths
      [] unit = REGISTER_U32 -> 20000000
      [] unit = REGISTER_S32 -> 20000000

\* a writable point of every integer kind, word order, scale and rounding
Layouts ==
    { [key |-> "layout", register |-> 4173, unit |-> u, order32 |-> o,
       scale |-> sc, rounding |-> r,
       native_min_value |-> Some(LayoutMin(u, sc)),
       native_max_value |-> Some(LayoutMax(u, sc))] :
        u \in {REGISTER_U16, REGISTER_S16, REGISTER_U32, REGISTER_S32},
        o \in {Endian_Big, Endian_Little},
        sc \in {1, 10, Hundredths},
        r \in {1, 2} }

CodecDescriptors == { WritableOf(NUMBER_TYPES[i]) : i \in 1..Len(NUMBER_TYPES) } \cup Layouts

\* the values tried on descriptor d: around both bounds (around the ends of
\* the register kind's range where d declares none), and inside
CodecValues(d) ==
    LET lo == IF d.native_min_value = NoNumber THEN LayoutMin(d.unit, d.scale) * Hundredths
              ELSE d.native_min_value[1] * Hundredths
        hi == IF d.native_max_value = NoNumber THEN LayoutMax(d.unit, d.scale) * Hundredths
              ELSE d.native_max_value[1] * Hundredths
    IN  { lo - Hundredths, lo - 1, lo, lo + 1, hi - 1, hi, hi + 1, hi + Hundredths }
        \cup { v \in { -150015, -4567, -100, -1, 0, 5, 99, 1234, 4500, 6553700 } :
                   lo <= v /\ v <= hi }

InitCodec ==
    /\ ResolverInit
    /\ MatchIdle
    /\ ReadIdle
    /\ PlanIdle
    /\ CycleIdle
    /\ \E d \in CodecDescriptors : \E v \in CodecValues(d) :
          codecCall = [descr |-> d, value |-> v]
    /\ codecPc = "called"
    /\ words = << >>
    /\ writes = << >>
    /\ decoded = 0

\* encodeWrite: the value is checked against the declared bounds, then encoded
Encode ==
    /\ codecPc = "called"
    /\ IF InBounds(codecCall.value, codecCall.descr)
       THEN /\ words' = encode(codecCall.value, codecCall.descr)
            /\ codecPc' = "encoded"
       ELSE /\ words' = words
            /\ codecPc' = "RangeError"
    /\ UNCHANGED << codecCall, writes, decoded,
                    resolverVars, matchVars, readVars, planVars, cycleVars >>

\* the transport is asked to write the words at the descriptor's address
WriteWords ==
    /\ codecPc = "encoded"
    /\ writes' = Append(writes, [address |-> codecCall.descr.register, words |-> words])
    /\ codecPc' = "written"
    /\ UNCHANGED << codecCall, words, decoded,
                    resolverVars, matchVars, readVars, planVars, cycleVars >>

\* the words written are read back and decoded
Decode ==
    /\ codecPc = "written"
    /\ decoded' = decode(writes[Len(writes)].words, codecCall.descr)
    /\ codecPc' = "decoded"
    /\ UNCHANGED << codecCall, words, writes,
                    resolverVars, matchVars, readVars, planVars, cycleVars >>

NextCodec == Encode \/ WriteWords \/ Decode

SpecCodec == InitCodec /\ [][NextCodec]_vars

Abs(x) == IF x >= 0 THEN x ELSE -x

\* the precision a descriptor declares: the coarser of its scale and of the
\* step of its rounding
Precision(d) ==
    IF d.scale >= RoundStep(d.rounding) THEN d.scale ELSE RoundStep(d.rounding)

\* C17: for every integer kind (unsigned and signed 16-bit, unsigned and signed
\* 32-bit in either word order) and every value within the declared bounds,
\* decoding the words encode produced gives the value back up to the declared
\* precision: exactly when the value is a multiple of the precision, and
\* otherwise less than one step of the precision away; the words are one or
\* two 16-bit words
C17_RoundTrip ==
    (codecPc = "decoded") =>
        LET d == codecCall.descr
            v == codecCall.value
        IN  /\ InBounds(v, d)
            /\ Len(words) = IF Is32(d) THEN 2 ELSE 1
            /\ \A i \in 1..Len(words) : words[i] \in 0..65535
            /\ Abs(decoded - v) < Precision(d)
            /\ (v % Precision(d) = 0) => decoded = v

\* a negative value of a signed 32-bit point in low-word-first order came back
\* as it was, through a high word with the sign bit set
C17_Witness ==
    /\ codecPc = "decoded"
    /\ codecCall.descr.unit = REGISTER_S32
    /\ codecCall.descr.order32 = Endian_Little
    /\ codecCall.value < -65536 * codecCall.descr.scale
    /\ words[2] >= 32768
    /\ words[1] # words[2]
    /\ decoded = codecCall.value

\* the value of the write is outside the bounds its descriptor declares
OutOfBounds ==
    \/ /\ codecCall.descr.native_min_value # NoNumber
       /\ codecCall.value < codecCall.descr.native_min_value[1] * Hundredths
    \/ /\ codecCall.descr.native_max_value # NoNumber
       /\ codecCall.value > codecCall.descr.native_max_value[1] * Hundredths

\* the row declares a minimum and a maximum
DeclaresBounds(n) == n.native_min_value # NoNumber /\ n.native_max_value # NoNumber

\* C18: a write of a value outside the declared minimum and maximum (outside
\* 1..90 for battery_minimum_capacity) fails with a range error: the call goes
\* from called to RangeError, no words are produced and no write is ever
\* issued to the transport; and every row of NUMBER_TYPES declares both bounds
C18_RangeError ==
    /\ [](\A i \in 1..Len(NUMBER_TYPES) : DeclaresBounds(NUMBER_TYPES[i]))
    /\ []((codecPc # "none" /\ OutOfBounds) =>
            /\ codecPc \in {"called", "RangeError"}
            /\ words = << >>
            /\ writes = << >>)
    /\ [][(codecPc = "called" /\ OutOfBounds) => codecPc' = "RangeError"]_vars

\* writes of 0 and of 91 to battery_minimum_capacity have failed, nothing written
C18_Witness ==
    /\ codecPc = "RangeError"
    /\ codecCall.descr.key = "battery_minimum_capacity"
    /\ codecCall.descr.native_min_value = Some(1)
    /\ codecCall.descr.native_max_value = Some(90)
    /\ codecCall.value \in {0, 91 * Hundredths}
    /\ writes = << >>

\* ------------------------------------------------------- the value functions

\* what a call value_function(initval, descr, datadict) does: it returns a
\* value, or raises KeyError (dd stands for the parameter datadict)
Returns(value) == [raised |-> FALSE, value |-> value]
KeyError == [raised |-> TRUE, value |-> 0]

\* datadict.get(key, default)
Get(dd, key, default) == IF key \in DOMAIN dd THEN dd[key] ELSE default

\* abs(val)
abs(val) == IF val < 0 THEN -val ELSE val

\* lines 145-146
value_function_pv_total_power(initval, descr, dd) ==
    Returns(Get(dd, "pv_power_1", 0) + Get(dd, "pv_power_2", 0))

\* a grid import that returns val as it is, without abs
value_function_grid_import_Signed(initval, descr, dd) ==
    IF "feedin_power" \notin DOMAIN dd THEN KeyError
    ELSE LET val == dd["feedin_power"] IN
         IF val < 0 THEN Returns(val) ELSE Returns(0)

\* lines 148-151
value_function_grid_import(initval, descr, dd) ==
    IF "feedin_power" \notin DOMAIN dd THEN KeyError
    ELSE LET val == dd["feedin_power"] IN
         IF val < 0 THEN Returns(abs(val)) ELSE Returns(0)

\* lines 153-156
value_function_grid_export(initval, descr, dd) ==
    IF "feedin_power" \notin DOMAIN dd THEN KeyError
    ELSE LET val == dd["feedin_power"] IN
         IF val > 0 THEN Returns(val) ELSE Returns(0)

\* a house load that reads its two values with datadict.get(..., 0)
value_function_house_load_Get(initval, descr, dd) ==
    Returns(Get(dd, "inverter_load", 0) - Get(dd, "feedin_power", 0))

\* lines 158-159
value_function_house_load(initval, descr, dd) ==
    IF "inverter_load" \notin DOMAIN dd THEN KeyError
    ELSE IF "feedin_power" \notin DOMAIN dd THEN KeyError
    ELSE Returns(dd["inverter_load"] - dd["feedin_power"])

\* the derived points, in the order the source defines their functions
DerivedPoints == << "pv_total_power", "grid_import", "grid_export", "house_load" >>

\* the value function of a derived point, called with the point's raw value,
\* its descriptor and the value mapping
Evaluate(initval, key, dd) ==
    CASE key = "pv_total_power" -> value_function_pv_total_power(initval, key, dd)
      [] key = "grid_import"    -> value_function_grid_import(initval, key, dd)
      [] key = "grid_export"    -> value_function_grid_export(initval, key, dd)
      [] key = "house_load"     -> value_function_house_load(initval, key, dd)

\* ------------------------------------------------------- the derive pass

\* the primary points the value functions read, and one they do not read
DependencyKeys == { "pv_power_1", "pv_power_2", "feedin_power", "inverter_load" }
UnrelatedKey == "battery_voltage_1"

\* the primary value mappings a cycle may have decoded: any of the dependency
\* keys may be absent (its block failed, or its point is not active)
PrimaryMappings ==
    UNION { { [k \in K \cup {UnrelatedKey} |-> IF k = UnrelatedKey THEN 512 ELSE f[k]] :
                f \in [K -> {-7, 0, 5}] } :
            K \in SUBSET DependencyKeys }

InitCycle ==
    /\ ResolverInit
    /\ MatchIdle
    /\ ReadIdle
    /\ PlanIdle
    /\ CodecIdle
    /\ datadict \in PrimaryMappings
    /\ cyclePc = 1
    /\ failures = << >>
    /\ requests = << >>

\* a derive pass that stops at the first derived point that fails
Derive_AbortOnFailure ==
    /\ cyclePc \in 1..Len(DerivedPoints)
    /\ LET key == DerivedPoints[cyclePc]
           r == Evaluate(0, key, datadict)
       IN  IF r.raised
           THEN /\ failures' = Append(failures, key)
                /\ datadict' = datadict
                /\ cyclePc' = Len(DerivedPoints) + 1
           ELSE /\ failures' = failures
                /\ datadict' = [k \in DOMAIN datadict \cup {key} |->
                                    IF k = key THEN r.value ELSE datadict[k]]
                /\ cyclePc' = cyclePc + 1
    /\ UNCHANGED << requests, resolverVars, matchVars, readVars, planVars, codecVars >>

\* the next derived point is evaluated on the mapping so far: its value is put
\* in the mapping, or its failure is reported and the point left out; the
\* pass goes on with the point after it
Derive ==
    /\ cyclePc \in 1..Len(DerivedPoints)
    /\ LET key == DerivedPoints[cyclePc]
           r == Evaluate(0, key, datadict)
       IN  IF r.raised
           THEN /\ failures' = Append(failures, key)
                /\ datadict' = datadict
           ELSE /\ failures' = failures
                /\ datadict' = [k \in DOMAIN datadict \cup {key} |->
                                    IF k = key THEN r.value ELSE datadict[k]]
    /\ cyclePc' = cyclePc + 1
    /\ UNCHANGED << requests, resolverVars, matchVars, readVars, planVars, codecVars >>

NextCycle == Derive

SpecCycle == InitCycle /\ [][NextCycle]_vars

\* the keys a derived point's function reads
Dependencies(key) ==
    CASE key = "pv_total_power" -> { "pv_power_1", "pv_power_2" }
      [] key = "grid_import"    -> { "feedin_power" }
      [] key = "grid_export"    -> { "feedin_power" }
      [] key = "house_load"     -> { "inverter_load", "feedin_power" }

\* the derived points evaluated so far in the cycle
EvaluatedPoints == { DerivedPoints[i] : i \in 1..(cyclePc - 1) }

\* derived point key was evaluated with a dependency absent from the mapping
LacksDependency(key) == ~(Dependencies(key) \subseteq DOMAIN datadict)

\* derived point key failed: it is reported and has no value in the mapping
Failed(key) ==
    /\ \E i \in 1..Len(failures) : failures[i] = key
    /\ key \notin DOMAIN datadict

Deriving == cyclePc \in 1..Len(DerivedPoints)

\* C20: when a derived point fails because a key it depends on is absent, only
\* that point is missing from the cycle's mapping: the step that evaluates it
\* reports it, leaves every value of the mapping as it was and moves on to the
\* next point (the pass is never aborted: it can always take its next step),
\* no step removes or changes a value already in the mapping, and at the end
\* of the pass every derived point that did not fail has its value
C20_OnlyFailedPointMissing ==
    /\ [][Deriving =>
            /\ cyclePc' = cyclePc + 1
            /\ \A k \in DOMAIN datadict : k \in DOMAIN datadict' /\ datadict'[k] = datadict[k]
            /\ DOMAIN datadict' \subseteq DOMAIN datadict \cup {DerivedPoints[cyclePc]}
            /\ (failures' # failures) =>
                  /\ failures' = Append(failures, DerivedPoints[cyclePc])
                  /\ datadict' = datadict]_vars
    /\ [](Deriving => ENABLED Derive)
    /\ [](cyclePc = Len(DerivedPoints) + 1 =>
            \A i \in 1..Len(DerivedPoints) :
                LET key == DerivedPoints[i] IN
                IF \E j \in 1..Len(failures) : failures[j] = key
                THEN key \notin DOMAIN datadict /\ LacksDependency(key)
                ELSE key \in DOMAIN datadict)

\* a pass is over in which grid_import and grid_export failed for want of
\* feedin_power, and only they and house_load are missing: the unrelated
\* primary point and pv_total_power are in the mapping
C20_Witness ==
    /\ cyclePc = Len(DerivedPoints) + 1
    /\ failures = << "grid_import", "grid_export", "house_load" >>
    /\ DOMAIN datadict = { UnrelatedKey, "pv_power_1", "pv_power_2", "inverter_load",
                           "pv_total_power" }
    /\ datadict[UnrelatedKey] = 512

\* ------------------------------------------------------------ the read cycle

\* the register-backed points of the cycle: the PV string points of the PV
\* Input rows, pv_voltage_1 to pv_power_4 (pv_total_power is the derived point)
CycleCatalog == SubSeq(PVInput, 1, Len(PVInput) - 1)

\* the PV Input rows with scale = 0.1 and rounding = 1; the other rows have
\* scale = 0.01 and rounding = 2
PVInputVoltages == { "pv_voltage_1", "pv_voltage_2", "pv_voltage_3", "pv_voltage_4" }

\* a PV Input row as the codec sees it: the row gives no order32, so it is
\* Endian.Big
ReadableOf(d) ==
    [key |-> d.key, register |-> d.register, unit |-> d.unit, order32 |-> Endian_Big,
     scale |-> IF d.key \in PVInputVoltages THEN 10 ELSE 1,
     rounding |-> IF d.key \in PVInputVoltages THEN 1 ELSE 2]

\* the register contents the device may hold at a read
RegisterImages == { 1, 2 }
RegisterWord(image, address) == (address * (6 + image)) % 65536

\* what the transport may give back for a block: all its words, one word
\* fewer, no word at all (a null or empty result), a failure or a timeout
Delivered(image, block, n) ==
    [status |-> "ok",
     words |-> [i \in 1..n |-> RegisterWord(image, block.startAddress + i - 1)]]

BlockResults(block) ==
    { Delivered(image, block, n) :
        image \in RegisterImages, n \in { 0, block.wordCount - 1, block.wordCount } }
    \cup { [status |-> "failed", words |-> << >>], [status |-> "timeout", words |-> << >>] }

\* the result holds every word the block asked for
Usable(result, block) ==
    /\ result.status = "ok"
    /\ Len(result.words) >= block.wordCount

\* the typed value of descriptor d in the words of its block
PrimaryValue(block, d, ws) ==
    decode(SubSeq(ws, Offset(block, d) + 1, Offset(block, d) + WordCount(d)), ReadableOf(d))

MemberKeys(block) == { block.members[i].key : i \in 1..Len(block.members) }

\* the mapping with every point of the block decoded from its words
decodeBlock(dd, block, ws) ==
    [k \in DOMAIN dd \cup MemberKeys(block) |->
        IF k \in MemberKeys(block)
        THEN LET i == CHOOSE j \in 1..Len(block.members) : block.members[j].key = k
             IN  PrimaryValue(block, block.members[i], ws)
        ELSE dd[k]]

\* a cycle is about to start on a device whose plan is built
InitEngine ==
    /\ ResolverInit
    /\ MatchIdle
    /\ ReadIdle
    /\ CodecIdle
    /\ CycleIdle
    /\ catalog = CycleCatalog
    /\ inverter \in Devices
    /\ maxWords = MaxBlockWords
    /\ planPc = "planned"
    /\ activeSet = resolveActiveSet(catalog, inverter.invertertype, inverter.seriesnumber)
    /\ blocks = planBlocks(activeSet, maxWords)

\* a cycle that moves on to the derive pass whatever blocks are still unread
BeginDerive_Early ==
    /\ cyclePc = 0
    /\ cyclePc' = 1
    /\ UNCHANGED << datadict, failures, requests,
                    resolverVars, matchVars, readVars, planVars, codecVars >>

\* a cycle that asks once more for the first block whose read gave nothing
\* usable
ReadBlock_Retry ==
    /\ cyclePc = 0
    /\ Len(requests) < Len(blocks) + 1
    /\ LET todo == { i \in 1..Len(blocks) :
                       ~\E j \in 1..Len(requests) :
                           /\ requests[j].startAddress = blocks[i].startAddress
                           /\ Usable(requests[j].result, blocks[i]) }
       IN  /\ todo # {}
           /\ LET block == blocks[CHOOSE n \in todo : \A m \in todo : n <= m] IN
              \E result \in BlockResults(block) :
                 /\ requests' = Append(requests, [startAddress |-> block.startAddress,
                                                  wordCount |-> block.wordCount,
                                                  result |-> result])
                 /\ datadict' = IF Usable(result, block)
                                THEN decodeBlock(datadict, block, result.words)
                                ELSE datadict
    /\ UNCHANGED << cyclePc, failures,
                    resolverVars, matchVars, readVars, planVars, codecVars >>

\* the next block of the plan is read once, and its points are decoded into
\* the mapping when the transport gave every word asked for; when it did not,
\* the block contributes nothing and the cycle goes on with the next block
ReadBlock ==
    /\ cyclePc = 0
    /\ Len(requests) < Len(blocks)
    /\ LET block == blocks[Len(requests) + 1] IN
       \E result \in BlockResults(block) :
          /\ requests' = Append(requests, [startAddress |-> block.startAddress,
                                           wordCount |-> block.wordCount,
                                           result |-> result])
          /\ datadict' = IF Usable(result, block)
                         THEN decodeBlock(datadict, block, result.words)
                         ELSE datadict
    /\ UNCHANGED << cyclePc, failures,
                    resolverVars, matchVars, readVars, planVars, codecVars >>

\* every block has been read: the derive pass begins
BeginDerive ==
    /\ cyclePc = 0
    /\ Len(requests) = Len(blocks)
    /\ cyclePc' = 1
    /\ UNCHANGED << datadict, failures, requests,
                    resolverVars, matchVars, readVars, planVars, codecVars >>

\* the cycle is over; the next one rebuilds the mapping from nothing
EndCycle ==
    /\ cyclePc = Len(DerivedPoints) + 1
    /\ datadict' = << >>
    /\ cyclePc' = 0
    /\ failures' = << >>
    /\ requests' = << >>
    /\ UNCHANGED << resolverVars, matchVars, readVars, planVars, codecVars >>

NextEngine == ReadBlock \/ BeginDerive \/ Derive \/ EndCycle

SpecEngine == InitEngine /\ [][NextEngine]_vars

\* the blocks read so far in the cycle whose read gave every word, and the
\* others
DecodedBlocks == { i \in 1..Len(requests) : Usable(requests[i].result, blocks[i]) }
LostBlocks == { i \in 1..Len(requests) : ~Usable(requests[i].result, blocks[i]) }

\* the derived points placed before and after position n
DerivedBefore(n) == { DerivedPoints[i] : i \in 1..(n - 1) }
DerivedAfter(n) == { DerivedPoints[i] : i \in (n + 1)..Len(DerivedPoints) }

\* the mapping holds, for every decoded block, the value of each of its points
\* as decoded from the words read
HoldsPrimaries(dd) ==
    \A i \in DecodedBlocks : \A m \in 1..Len(blocks[i].members) :
        LET d == blocks[i].members[m] IN
        /\ d.key \in DOMAIN dd
        /\ dd[d.key] = PrimaryValue(blocks[i], d, requests[i].result.words)

\* C21: within one read cycle every derived point is evaluated after all
\* register-backed points have been decoded (the derive pass is under way only
\* when every block has been read, and no block is read during it), and the
\* derived points are evaluated one by one in their order: the function of the
\* point at position n is applied to a mapping that holds every primary value
\* decoded in the cycle and every derived point placed before n that did not
\* fail, and none placed after n
C21_DerivedAfterPrimaries ==
    /\ [](Deriving => Len(requests) = Len(blocks))
    /\ [][Deriving =>
            LET key == DerivedPoints[cyclePc] IN
            /\ requests' = requests
            /\ cyclePc' = cyclePc + 1
            /\ HoldsPrimaries(datadict)
            /\ \A e \in DerivedBefore(cyclePc) :
                  e \in DOMAIN datadict \/ \E j \in 1..Len(failures) : failures[j] = e
            /\ \A l \in DerivedAfter(cyclePc) \cup {key} : l \notin DOMAIN datadict
            /\ DOMAIN datadict' \subseteq DOMAIN datadict \cup {key}
            /\ key \in DOMAIN datadict' =>
                  datadict'[key] = Evaluate(0, key, datadict).value]_vars

\* the derive pass is over in a cycle whose first block was read in full:
\* pv_total_power is the sum of the two string powers decoded in the cycle
C21_Witness ==
    /\ cyclePc = Len(DerivedPoints) + 1
    /\ Len(blocks) > 1
    /\ 1 \in DecodedBlocks
    /\ DecodedBlocks # 1..Len(blocks)
    /\ datadict["pv_power_1"] > 0
    /\ datadict["pv_total_power"] = datadict["pv_power_1"] + datadict["pv_power_2"]

\* C22: when a block read fails, times out or gives fewer words than asked
\* for, the points of that block are absent from the cycle's mapping, the
\* points of every other block are decoded all the same, and the block is not
\* asked for again in the cycle: the requests of a cycle are the blocks of the
\* plan, once each and in order
C22_FailedBlockAbsent ==
    /\ [](/\ Len(requests) <= Len(blocks)
          /\ \A i \in 1..Len(requests) :
                /\ requests[i].startAddress = blocks[i].startAddress
                /\ requests[i].wordCount = blocks[i].wordCount)
    /\ [](HoldsPrimaries(datadict))
    /\ [](\A i \in LostBlocks : MemberKeys(blocks[i]) \cap DOMAIN datadict = {})
    /\ [](cyclePc = 0 /\ Len(requests) < Len(blocks) => ENABLED ReadBlock)

\* every block has been asked for: the first failed, the second gave a word
\* too few, the third was read in full and its point is in the mapping
C22_Witness ==
    /\ Len(blocks) = 3
    /\ Len(requests) = 3
    /\ requests[1].result.status = "failed"
    /\ requests[2].result.status = "ok"
    /\ Len(requests[2].result.words) = blocks[2].wordCount - 1
    /\ LostBlocks = {1, 2}
    /\ DOMAIN datadict = { "pv_power_4" }

\* ------------------------------------------------- resolutions in sequence

\* the identity the present call resolved: the one it read, or 'unknown' when
\* its reads gave none
LatestIdentity == IF IdentityRead THEN reads[Len(reads)].res ELSE Str_unknown

\* C23: after any sequence of resolutions on one hub, hub.invertertype is a
\* function of the latest resolution only: it is the base capabilities of the
\* identity that resolution read (none for 'unknown') and the override bits of
\* its toggles; the step that assigns it overwrites what an earlier resolution
\* left, so no capability bit of an earlier resolution survives unless the
\* latest resolution produces it too
C23_LatestResolutionOnly ==
    /\ [](Done =>
            hub.invertertype = BaseInverterType(LatestIdentity) + OverrideBits(configdict))
    /\ [][(pc = "line91" /\ pc' = "done") =>
            /\ hub'.invertertype =
                  BaseInverterType(LatestIdentity) + OverrideBits(configdict)
            /\ \A b \in { GEN, X1, X3, PV, AC, HYBRID, MIC, EPS, DCB, PM } :
                  (HasFlag(hub.invertertype, b) /\ ~HasFlag(hub'.invertertype, b)) =>
                      /\ ~HasFlag(BaseInverterType(LatestIdentity), b)
                      /\ ~HasFlag(OverrideBits(configdict), b)]_vars

\* the second resolution on the hub has ended with no capability at all after
\* a first one that read an 'SP1' identity (the hub still holds it) and so had
\* left HYBRID on the hub
C23_Witness ==
    /\ resolutions = 2
    /\ Done
    /\ BothReadsFailed
    /\ HasPrefix(hub.seriesnumber, Pfx_SP1)
    /\ hub.invertertype = 0

\* C25: after every determineInverterType call, in any sequence of calls,
\* hub.seriesnumber and hub.invertertype describe the same resolution: the
\* base bits of hub.invertertype are the prefix-rule mask of hub.seriesnumber,
\* and after a resolution in which both reads fail hub.seriesnumber is
\* 'unknown' and not the serial of an earlier resolution
C25_IdentityAndMaskAgree ==
    Done =>
        /\ BaseBits(hub.invertertype) = BaseInverterType(hub.seriesnumber)
        /\ BothReadsFailed => hub.seriesnumber = Str_unknown

\* ------------------------------------------------------ the capability groups

Groups == << ALL_GEN_GROUP, ALL_X_GROUP, ALL_TYPE_GROUP,
             ALL_EPS_GROUP, ALL_DCB_GROUP, ALL_PM_GROUP >>

NamedFlags == { GEN, GEN2, GEN3, GEN4, X1, X3, PV, AC, HYBRID, MIC, EPS, DCB, PM }

IsSingleBit(f) == \E n \in 0..17 : f = 2 ^ n

\* no bit belongs to two groups
GroupsPairwiseDisjoint ==
    \A j, k \in 1..Len(Groups) : j # k => BitAnd(Groups[j], Groups[k]) = 0

\* every named flag is a single bit of exactly one group
FlagsInOneGroup ==
    \A f \in NamedFlags :
        /\ IsSingleBit(f)
        /\ Cardinality({ k \in 1..Len(Groups) : BitAnd(Groups[k], f) # 0 }) = 1

\* every named flag together
AllFlags == SumOf(NamedFlags)

\* C24: the capability groups are pairwise disjoint bit ranges: no bit belongs
\* to two of ALL_GEN_GROUP, ALL_X_GROUP, ALL_TYPE_GROUP, ALL_EPS_GROUP,
\* ALL_DCB_GROUP and ALL_PM_GROUP, and every named flag is a single bit that
\* lies in exactly one group; so the parts of a device value that the six
\* group tests of matchInverterWithMask look at do not overlap: they add up to
\* the bits the value has in the groups taken together
C24_GroupsDisjoint ==
    /\ GroupsPairwiseDisjoint
    /\ FlagsInOneGroup
    /\ Returned =>
          BitAnd(call.inverterspec, ALL_GEN_GROUP) + BitAnd(call.inverterspec, ALL_X_GROUP)
          + BitAnd(call.inverterspec, ALL_TYPE_GROUP) + BitAnd(call.inverterspec, ALL_EPS_GROUP)
          + BitAnd(call.inverterspec, ALL_DCB_GROUP) + BitAnd(call.inverterspec, ALL_PM_GROUP)
          = BitAnd(call.inverterspec, AllFlags)

\* a call has returned whose device has a flag in four groups, each in the
\* part of its own group only
C24_Witness ==
    /\ Returned
    /\ call.inverterspec = HYBRID + X3 + GEN + EPS
    /\ BitAnd(call.inverterspec, ALL_TYPE_GROUP) = HYBRID
    /\ BitAnd(call.inverterspec, ALL_X_GROUP) = X3
    /\ BitAnd(call.inverterspec, ALL_GEN_GROUP) = GEN
    /\ BitAnd(call.inverterspec, ALL_EPS_GROUP) = EPS

\* ------------------------------------------- monotonicity and foreign bits

\* the capability values with all the bits of d and those of one more tried
\* value
Supersets(d) == { BitOr(d, x) : x \in SingleValues \cup CatalogMasks }

\* C27: matchInverterWithMask is monotone in the device capabilities: for the
\* mask, serial number and blacklist of a call that returned true, it returns
\* true for every device value that has all the bits of the call's (adding
\* capability bits never turns a match into a mismatch)
C27_MonotoneInDevice ==
    (Returned /\ matchResult) =>
        \A d \in Supersets(call.inverterspec) :
            matchInverterWithMask(d, call.entitymask, call.serialnumber, call.blacklist)

\* a call with a phase and a type requirement has matched a device that has
\* just the two bits asked for; the device with every named flag is one of the
\* supersets tried
C27_Witness ==
    /\ Returned /\ matchResult
    /\ call.entitymask = X1 + PV
    /\ call.inverterspec = X1 + PV
    /\ (X1 + PV + GEN) \in Supersets(call.inverterspec)
    /\ (X1 + PV + ALL_TYPE_GROUP - PV) \in Supersets(call.inverterspec)

\* the bits of no group that are tried: 0x0010, 0x4000, 0x40000
ForeignBits == { 16, 16384, 262144 }

\* n with bit b set if it is clear and cleared if it is set
Flip(n, b) == IF HasFlag(n, b) THEN n - b ELSE n + b

\* n is made of bits of no group only
OnlyForeignBits(n) == BitAnd(n, AllFlags) = 0

\* C28: matchInverterWithMask gives a result for any bit pattern and ignores
\* bits that belong to no group: setting or clearing 0x0010, 0x4000 or 0x40000
\* in the mask or in the device value of a call does not change its result;
\* so a mask made only of such bits gets the result of the mask 0: it matches
\* every device (whose serial number no blacklist prefix rejects)
C28_ForeignBitsIgnored ==
    Returned =>
        /\ matchResult \in BOOLEAN
        /\ \A b \in ForeignBits :
              /\ matchInverterWithMask(Flip(call.inverterspec, b), call.entitymask,
                                       call.serialnumber, call.blacklist) = matchResult
              /\ matchInverterWithMask(call.inverterspec, Flip(call.entitymask, b),
                                       call.serialnumber, call.blacklist) = matchResult
        /\ OnlyForeignBits(call.entitymask) =>
              /\ matchResult = matchInverterWithMask(call.inverterspec, 0,
                                                     call.serialnumber, call.blacklist)
              /\ ~SerialHitsBlacklist => matchResult

\* a mask of the one bit 0x40000 has matched a device with flags in three
\* groups
C28_Witness ==
    /\ Returned /\ matchResult
    /\ call.entitymask = 262144
    /\ call.inverterspec = GEN + X1 + PV

\* ---------------------------------------------------- the PV Input points

\* the catalog handed to resolveActiveSet holds the PV Input rows
HoldsPVInput == catalog \in { SENSOR_TYPES, SENSOR_TYPES \o NUMBER_TYPES \o SELECT_TYPES }

\* row d of the catalog is in the Active Point Set
Active(d) == \E j \in 1..Len(activeSet) : activeSet[j] = d

AllPVInputActive == \A i \in 1..Len(PVInput) : Active(PVInput[i])
NoPVInputActive == \A i \in 1..Len(PVInput) : ~Active(PVInput[i])

\* the prefixes whose rule gives PV and no generation bit
PVOnlyPrefixes == { Pfx_SA1, Pfx_SB1, Pfx_SC1, Pfx_SD1, Pfx_SF4, Pfx_SH1, Pfx_SL1, Pfx_SJ2 }

\* the prefixes whose rule gives a generation bit
GenPrefixes == { Pfx_SP1, Pfx_SP2, Pfx_SM1E, Pfx_ZM1E, Pfx_SS2E }

\* C26: the PV Input points, pv_voltage_1 to pv_total_power, all require
\* HYBRID|PV|GEN, and they are in the Active Point Set if and only if the
\* resolved capability set has the GEN bit and a HYBRID or PV bit: they are
\* all active for serials starting with SP1 (other than SP1ES120N6), SP2, SM1E,
\* ZM1E and SS2E, and all absent for SP1ES120N6 and for the PV-only prefixes
\* SA1, SB1, SC1, SD1, SF4, SH1, SL1 and SJ2
C26_PVInputActive ==
    (Resolved /\ HoldsPVInput) =>
        /\ PVInput[1].key = "pv_voltage_1"
        /\ PVInput[Len(PVInput)].key = "pv_total_power"
        /\ \A i \in 1..Len(PVInput) : PVInput[i].allowedtypes = HYBRID + PV + GEN
        /\ IF /\ HasFlag(inverter.invertertype, GEN)
              /\ HasFlag(inverter.invertertype, HYBRID) \/ HasFlag(inverter.invertertype, PV)
           THEN AllPVInputActive
           ELSE NoPVInputActive
        /\ (/\ \E p \in GenPrefixes : HasPrefix(inverter.seriesnumber, p)
            /\ ~HasPrefix(inverter.seriesnumber, Pfx_SP1ES120N6)) => AllPVInputActive
        /\ HasPrefix(inverter.seriesnumber, Pfx_SP1ES120N6) => NoPVInputActive
        /\ (\E p \in PVOnlyPrefixes : HasPrefix(inverter.seriesnumber, p)) => NoPVInputActive

\* the set is resolved for a hybrid 'SP1' device, with the PV Input points in
\* it though the device has no PV bit
C26_Witness ==
    /\ Resolved /\ HoldsPVInput
    /\ HasPrefix(inverter.seriesnumber, Pfx_SP1)
    /\ inverter.invertertype = HYBRID + X3 + GEN
    /\ AllPVInputActive

\* ------------------------------------------------ grid import and export

\* the largest feed-in power tried, either way
MaxPower == 12

\* a derive pass on a mapping that holds feedin_power
InitGrid ==
    /\ ResolverInit
    /\ MatchIdle
    /\ ReadIdle
    /\ PlanIdle
    /\ CodecIdle
    /\ \E val \in (0 - MaxPower)..MaxPower : datadict = [k \in {"feedin_power"} |-> val]
    /\ cyclePc = 1
    /\ failures = << >>
    /\ requests = << >>

SpecGrid == InitGrid /\ [][NextCycle]_vars

\* C29: for every feedin_power, value_function_grid_import and
\* value_function_grid_export both return a value that is not negative, at
\* most one of the two is not zero, and grid_export minus grid_import is
\* feedin_power; neither changes the mapping: the steps that evaluate them
\* leave every value in it as it was and add the point's own value only
C29_GridImportExport ==
    /\ [](cyclePc > 3 =>
            /\ {"grid_import", "grid_export"} \subseteq DOMAIN datadict
            /\ datadict["grid_import"] >= 0
            /\ datadict["grid_export"] >= 0
            /\ datadict["grid_import"] = 0 \/ datadict["grid_export"] = 0
            /\ datadict["grid_export"] - datadict["grid_import"] = datadict["feedin_power"])
    /\ [][(cyclePc = 2 \/ cyclePc = 3) =>
            /\ failures' = failures
            /\ DOMAIN datadict' = DOMAIN datadict \cup {DerivedPoints[cyclePc]}
            /\ \A k \in DOMAIN datadict : datadict'[k] = datadict[k]]_vars

\* both functions have been applied to a feed-in power of -7: 7 is imported,
\* nothing exported
C29_Witness ==
    /\ cyclePc > 3
    /\ datadict["feedin_power"] = -7
    /\ datadict["grid_import"] = 7
    /\ datadict["grid_export"] = 0

\* ------------------------------------------------ the swap as an involution

\* how many times character c occurs in string s
Occurrences(s, c) == Cardinality({ i \in 1..Len(s) : s[i] = c })

\* C30: the byte swap of _read_serialnr is an involution on the 14-character
\* identity: a swapped read of the registers that hold what a swapped read
\* returned gives the string as it was read at first (the pairwise swap
\* applied twice is the original), and one application keeps the length and
\* the number of occurrences of every character
C30_SwapInvolution ==
    (readPc = "returned" /\ FourteenRead /\ readCall.swapbytes) =>
        LET original == CharsOf(readCall.response.registers, FALSE) IN
        /\ read_serialnr(OkResponse(RegistersFor(readResult)), TRUE).res = original
        /\ Len(readResult) = 14
        /\ Len(readResult) = Len(original)
        /\ \A c \in 0..127 : Occurrences(readResult, c) = Occurrences(original, c)

\* a swapped read has returned an 'SP1' identity from registers that hold it
\* with the bytes of every pair exchanged
C30_Witness ==
    /\ readPc = "returned" /\ FourteenRead /\ readCall.swapbytes
    /\ HasPrefix(readResult, Pfx_SP1)
    /\ readResult # CharsOf(readCall.response.registers, FALSE)
    /\ readResult[13] # readResult[14]

====
